---- MODULE Spec2Model ----
(***************************************************************************)
(* A model of the RDBMS core: the storage engine (storage.py), the index   *)
(* (index.py), the schema (schema.py) and the query executor (executor.py) *)
(* behind Database.execute (database.py).                                  *)
(*                                                                         *)
(* The database directory is modelled by three maps keyed by what names    *)
(* the file: schema_files (<t>.schema), table_files (<t>.tbl) and          *)
(* index_files (the path <t>_<col>.idx).  A file exists iff its key is in  *)
(* the DOMAIN of the map.  The executor's cache is the variable indexes.   *)
(***************************************************************************)
EXTENDS Integers, Sequences, FiniteSets, TLC

VARIABLES
    schema_files,   \* [table name -> persisted schema]          (<t>.schema)
    table_files,    \* [table name -> sequence of lines]         (<t>.tbl)
    index_files,    \* [index path -> pickled Index.index]       (<t>_<c>.idx)
    indexes,        \* QueryExecutor.indexes: table -> column -> Index.index
    cmd,            \* the parsed command handed to the last execute
    result,         \* what that execute returned or raised
    turn,           \* the number of commands executed so far, modulo 2
    opens,          \* how many Database objects were built on the directory
    created_here,   \* tables created by the current Database object
    inserted        \* per table: rows inserted since CREATE, or untracked

vars == <<schema_files, table_files, index_files, indexes, cmd, result,
          turn, opens, created_here, inserted>>

(***************************************************************************)
(* Bounds of the model.                                                    *)
(***************************************************************************)
MaxRows == 2        \* INSERT is explored while a row file has fewer lines
MaxOpens == 2       \* Database objects built on the same directory

(***************************************************************************)
(* Python values.  A value is a record [k, n, s]: k is the Python type,    *)
(* n the number (int; bool as 0/1; float in tenths), s the characters of   *)
(* a str.  Strings are sequences of one-character strings so that the row  *)
(* encoding can be computed character by character.                        *)
(***************************************************************************)
None == [k |-> "none", n |-> 0, s |-> <<>>]
IntVal(i) == [k |-> "int", n |-> i, s |-> <<>>]
BoolVal(b) == [k |-> "bool", n |-> IF b THEN 1 ELSE 0, s |-> <<>>]
FloatVal(tenths) == [k |-> "float", n |-> tenths, s |-> <<>>]
StrVal(chars) == [k |-> "str", n |-> 0, s |-> chars]

\* Optional arguments of a parsed command (Python None or a value).
Absent == <<>>
Some(x) == <<x>>

\* Python == and hash on the values above: True == 1 == 1.0, False == 0.
PyKey(v) ==
    CASE v.k = "bool" -> IntVal(v.n)
      [] v.k = "float" /\ v.n % 10 = 0 -> IntVal(v.n \div 10)
      [] OTHER -> v

PyEq(a, b) == PyKey(a) = PyKey(b)

Digits == <<"0", "1", "2", "3", "4", "5", "6", "7", "8", "9">>

RECURSIVE NatToStr(_)
NatToStr(i) ==
    IF i < 10 THEN <<Digits[i + 1]>>
    ELSE NatToStr(i \div 10) \o <<Digits[(i % 10) + 1]>>

IntToStr(i) == IF i < 0 THEN <<"-">> \o NatToStr(-i) ELSE NatToStr(i)

\* str(value) for a value that is not None.
PyStr(v) ==
    CASE v.k = "int" -> IntToStr(v.n)
      [] v.k = "bool" -> IF v.n = 1 THEN <<"T", "r", "u", "e">>
                         ELSE <<"F", "a", "l", "s", "e">>
      [] v.k = "float" ->
            (IF v.n < 0 THEN <<"-">> ELSE <<>>)
            \o NatToStr((IF v.n < 0 THEN -v.n ELSE v.n) \div 10)
            \o <<".">>
            \o <<Digits[((IF v.n < 0 THEN -v.n ELSE v.n) % 10) + 1]>>
      [] OTHER -> v.s

IsSpace(c) == c = " "

RECURSIVE LStrip(_)
LStrip(s) ==
    IF s = <<>> THEN <<>>
    ELSE IF IsSpace(Head(s)) THEN LStrip(Tail(s)) ELSE s

RECURSIVE RStrip(_)
RStrip(s) ==
    IF s = <<>> THEN <<>>
    ELSE IF IsSpace(s[Len(s)]) THEN RStrip(SubSeq(s, 1, Len(s) - 1)) ELSE s

\* str.strip()
Strip(s) == RStrip(LStrip(s))

DigitValue(c) == CHOOSE d \in 0..9 : Digits[d + 1] = c
IsDigit(c) == \E d \in 0..9 : Digits[d + 1] = c

RECURSIVE DigitsToNat(_, _)
DigitsToNat(s, acc) ==
    IF s = <<>> THEN acc
    ELSE DigitsToNat(Tail(s), acc * 10 + DigitValue(Head(s)))

\* int(raw): surrounding blanks, an optional sign, then decimal digits.
\* Anything else raises ValueError (ok = FALSE).
PyInt(raw) ==
    LET t == Strip(raw)
        signed == t # <<>> /\ Head(t) \in {"-", "+"}
        body == IF signed THEN Tail(t) ELSE t
        good == body # <<>> /\ \A i \in 1..Len(body) : IsDigit(body[i])
    IN  IF good
        THEN [ok |-> TRUE,
              n |-> IF signed /\ Head(t) = "-" THEN -DigitsToNat(body, 0)
                    ELSE DigitsToNat(body, 0)]
        ELSE [ok |-> FALSE, n |-> 0]

Uppercase ==
    <<"A", "B", "C", "D", "E", "F", "G", "H", "I", "J", "K", "L", "M",
      "N", "O", "P", "Q", "R", "S", "T", "U", "V", "W", "X", "Y", "Z">>

Lowercase ==
    <<"a", "b", "c", "d", "e", "f", "g", "h", "i", "j", "k", "l", "m",
      "n", "o", "p", "q", "r", "s", "t", "u", "v", "w", "x", "y", "z">>

LowerChar(c) ==
    IF \E i \in 1..26 : Uppercase[i] = c
    THEN Lowercase[CHOOSE i \in 1..26 : Uppercase[i] = c]
    ELSE c

UpperChar(c) ==
    IF \E i \in 1..26 : Lowercase[i] = c
    THEN Uppercase[CHOOSE i \in 1..26 : Lowercase[i] = c]
    ELSE c

\* str.lower()
Lower(s) == [i \in 1..Len(s) |-> LowerChar(s[i])]

\* str.upper()
Upper(s) == [i \in 1..Len(s) |-> UpperChar(s[i])]

\* str(value).replace(',', '\\,')
RECURSIVE EscapeCommas(_)
EscapeCommas(s) ==
    IF s = <<>> THEN <<>>
    ELSE IF Head(s) = "," THEN <<"\\", ",">> \o EscapeCommas(Tail(s))
    ELSE <<Head(s)>> \o EscapeCommas(Tail(s))

\* raw_value.replace('\\,', ',')
RECURSIVE UnescapeCommas(_)
UnescapeCommas(s) ==
    IF s = <<>> THEN <<>>
    ELSE IF Len(s) >= 2 /\ s[1] = "\\" /\ s[2] = ","
         THEN <<",">> \o UnescapeCommas(SubSeq(s, 3, Len(s)))
    ELSE <<Head(s)>> \o UnescapeCommas(Tail(s))

\* ','.join(values)
RECURSIVE Join(_)
Join(fields) ==
    IF fields = <<>> THEN <<>>
    ELSE IF Len(fields) = 1 THEN fields[1]
    ELSE fields[1] \o <<",">> \o Join(Tail(fields))

\* line.split(','): cuts at every comma, escaped or not.
RECURSIVE SplitFrom(_, _)
SplitFrom(s, cur) ==
    IF s = <<>> THEN <<cur>>
    ELSE IF Head(s) = "," THEN <<cur>> \o SplitFrom(Tail(s), <<>>)
    ELSE SplitFrom(Tail(s), Append(cur, Head(s)))

Split(s) == SplitFrom(s, <<>>)

(***************************************************************************)
(* Schema (schema.py).  A TableSchema is the sequence of its Columns.      *)
(***************************************************************************)
Column(name, dtype, primary_key, unique, nullable) ==
    [name |-> name, dtype |-> dtype, primary_key |-> primary_key,
     unique |-> unique, nullable |-> nullable]

\* DataType: the enum member's value, as save_schema writes it.
DataTypeValue(dtype) ==
    CASE dtype = "INTEGER" -> "INT"
      [] dtype = "VARCHAR" -> "VARCHAR"
      [] dtype = "BOOLEAN" -> "BOOLEAN"
      [] dtype = "DATE" -> "DATE"

\* DataType(value), as load_schema reads it back.
DataTypeOf(value) ==
    CASE value = "INT" -> "INTEGER"
      [] value = "VARCHAR" -> "VARCHAR"
      [] value = "BOOLEAN" -> "BOOLEAN"
      [] value = "DATE" -> "DATE"

\* list(schema.columns.keys())
ColumnNames(schema) == [i \in 1..Len(schema) |-> schema[i].name]

ColumnSet(schema) == {schema[i].name : i \in 1..Len(schema)}

ColumnOf(schema, name) ==
    schema[CHOOSE i \in 1..Len(schema) : schema[i].name = name]

\* TableSchema.primary_key
primary_key(schema) ==
    SelectSeq(ColumnNames(schema), LAMBDA c : ColumnOf(schema, c).primary_key)

\* validate_row without its test: every row passes.
validate_row_accept_all(schema, row) == TRUE

\* TableSchema.validate_row
validate_row(schema, row) ==
    \A i \in 1..Len(schema) :
        ~(~schema[i].nullable /\ schema[i].name \notin DOMAIN row)

(***************************************************************************)
(* Maps with a changing domain (Python dicts, directory listings).         *)
(***************************************************************************)
Put(f, key, val) ==
    [x \in DOMAIN f \cup {key} |-> IF x = key THEN val ELSE f[x]]

Del(f, key) == [x \in DOMAIN f \ {key} |-> f[x]]

EmptyMap == [x \in {} |-> 0]

\* dict(zip(keys, values)): pairs up to the shorter length, later pairs win.
Zip(keys, values) ==
    LET m == IF Len(keys) < Len(values) THEN Len(keys) ELSE Len(values)
    IN  [c \in {keys[i] : i \in 1..m} |->
            values[CHOOSE i \in 1..m :
                      keys[i] = c /\ \A j \in (i + 1)..m : keys[j] # c]]

\* row.get(col)
Get(row, col) == IF col \in DOMAIN row THEN row[col] ELSE None

(***************************************************************************)
(* Index (index.py).  Index.index is a dict value -> set of rowids; its    *)
(* keys are kept in the form Python's == and hash identify.                *)
(***************************************************************************)
\* Index.add
IndexAdd(index, value, rowid) ==
    LET key == PyKey(value)
    IN  IF key \notin DOMAIN index THEN Put(index, key, {rowid})
        ELSE Put(index, key, index[key] \cup {rowid})

\* Index.remove
IndexRemove(index, value, rowid) ==
    LET key == PyKey(value)
    IN  IF key \in DOMAIN index
        THEN IF index[key] \ {rowid} = {} THEN Del(index, key)
             ELSE Put(index, key, index[key] \ {rowid})
        ELSE index

\* value in index.index
IndexHas(index, value) == PyKey(value) \in DOMAIN index

(***************************************************************************)
(* Storage engine (storage.py).  Every operation takes the files it reads  *)
(* so that a handler can chain them; a raised exception is ok = FALSE.     *)
(***************************************************************************)
\* StorageEngine.index_path, relative to db_path.
index_path(t_name, column) == t_name \o "_" \o column \o ".idx"

\* StorageEngine.save_schema: the JSON object written to <t>.schema.
\* (length is written too; nothing reads it back into a decision.)
save_schema(sf, t_name, schema) ==
    Put(sf, t_name,
        [name |-> t_name,
         columns |-> [i \in 1..Len(schema) |->
                        [name |-> schema[i].name,
                         dtype |-> DataTypeValue(schema[i].dtype),
                         primary_key |-> schema[i].primary_key,
                         unique |-> schema[i].unique,
                         nullable |-> schema[i].nullable]]])

\* StorageEngine.load_schema: FileNotFoundError when <t>.schema is absent.
load_schema(sf, t_name) ==
    IF t_name \notin DOMAIN sf
    THEN [ok |-> FALSE, schema |-> <<>>]
    ELSE [ok |-> TRUE,
          schema |-> [i \in 1..Len(sf[t_name].columns) |->
                        Column(sf[t_name].columns[i].name,
                               DataTypeOf(sf[t_name].columns[i].dtype),
                               sf[t_name].columns[i].primary_key,
                               sf[t_name].columns[i].unique,
                               sf[t_name].columns[i].nullable)]]

NullLiteral == <<"N", "U", "L", "L">>

\* One field of a written line: NULL, or str(value) with commas escaped.
EncodeValue(value) ==
    IF value = None THEN NullLiteral ELSE EscapeCommas(PyStr(value))

\* The line insert_row, delete_row and _rewrite_table write for a row
\* (without its newline).
EncodeRow(schema, row) ==
    Join([i \in 1..Len(schema) |-> EncodeValue(Get(row, schema[i].name))])

\* StorageEngine.insert_row: open(path, 'a') creates the file before
\* load_schema can raise; the rowid is the number of lines afterwards.
insert_row(sf, tf, t_name, row) ==
    LET Appended(lines) ==
            [ok |-> TRUE, error |-> "",
             tf |-> Put(tf, t_name, lines), rowid |-> Len(lines)]
        Opened(ls, old) ==
            IF ~ls.ok
            THEN [ok |-> FALSE, error |-> "not_found",
                  tf |-> Put(tf, t_name, old), rowid |-> 0]
            ELSE Appended(Append(old, EncodeRow(ls.schema, row)))
    IN  Opened(load_schema(sf, t_name),
               IF t_name \in DOMAIN tf THEN tf[t_name] ELSE <<>>)

\* The type conversion of one field in read_rows.
DecodeField(col, raw_value) ==
    LET Converted(int) == [ok |-> int.ok, value |-> IntVal(int.n)]
    IN  IF raw_value = NullLiteral THEN [ok |-> TRUE, value |-> None]
        ELSE IF col.dtype = "INTEGER" THEN Converted(PyInt(raw_value))
        ELSE IF col.dtype = "BOOLEAN"
             THEN [ok |-> TRUE,
                   value |-> BoolVal(Lower(raw_value) = <<"t", "r", "u", "e">>)]
        ELSE [ok |-> TRUE, value |-> StrVal(UnescapeCommas(raw_value))]

\* One non-blank line of read_rows: split, zip with the columns, convert.
ParseLine(schema, line, line_num) ==
    LET Zipped(fields) ==
            [ok |-> \A i \in 1..Len(fields) : fields[i].ok,
             row |-> [values |-> Zip(ColumnNames(schema),
                                     [i \in 1..Len(fields) |-> fields[i].value]),
                      rowid |-> line_num]]
        Cut(values) ==
            Zipped([i \in 1..(IF Len(schema) < Len(values)
                              THEN Len(schema) ELSE Len(values)) |->
                        DecodeField(schema[i], values[i])])
    IN  Cut(Split(Strip(line)))

\* StorageEngine.read_rows: [] without a row file, FileNotFoundError without
\* a schema file, ValueError when int() rejects a field.
read_rows(sf, tf, t_name) ==
    LET Collected(parsed) ==
            IF \E j \in 1..Len(parsed) : ~parsed[j].ok
            THEN [ok |-> FALSE, error |-> "value_error", rows |-> <<>>]
            ELSE [ok |-> TRUE, error |-> "",
                  rows |-> [j \in 1..Len(parsed) |-> parsed[j].row]]
        Scanned(schema, lines, live) ==
            Collected([j \in 1..Len(live) |->
                          ParseLine(schema, lines[live[j]], live[j])])
        Loaded(ls) ==
            IF ~ls.ok
            THEN [ok |-> FALSE, error |-> "not_found", rows |-> <<>>]
            ELSE Scanned(ls.schema, tf[t_name],
                         SelectSeq([i \in 1..Len(tf[t_name]) |-> i],
                                   LAMBDA i : Strip(tf[t_name][i]) # <<>>))
    IN  IF t_name \notin DOMAIN tf
        THEN [ok |-> TRUE, error |-> "", rows |-> <<>>]
        ELSE Loaded(load_schema(sf, t_name))

\* QueryExecutor._rewrite_table: load_schema, then truncate and write.
rewrite_table(sf, tf, t_name, rows) ==
    LET Loaded(ls) ==
            IF ~ls.ok THEN [ok |-> FALSE, error |-> "not_found", tf |-> tf]
            ELSE [ok |-> TRUE, error |-> "",
                  tf |-> Put(tf, t_name,
                             [i \in 1..Len(rows) |->
                                EncodeRow(ls.schema, rows[i].values)])]
    IN  Loaded(load_schema(sf, t_name))

(***************************************************************************)
(* Executor (executor.py).  A handler is an operator from the current      *)
(* state and the parsed command to the state it leaves and its result:     *)
(* [sf, tf, xf, ix, res].                                                  *)
(***************************************************************************)
\* Python's "value or default" on an optional list: None and the empty list
\* are both falsy.
PyOr(value, default) ==
    IF value = Absent THEN Some(default)
    ELSE IF value[1] = <<>> THEN Some(default)
    ELSE value

\* QueryResult.__init__(rows=None, rowcount=0): self.rows = rows or [].
\* rows is Absent where the caller passes no rows; null_rows tells whether
\* self.rows is None.
QueryResult(rows, rowcount) ==
    [ok |-> TRUE, error |-> "", rows |-> PyOr(rows, <<>>)[1],
     null_rows |-> PyOr(rows, <<>>) = Absent, rowcount |-> rowcount]

\* An exception that leaves execute.
Raised(error) == [ok |-> FALSE, error |-> error, rows |-> <<>>, rowcount |-> 0]

Out(sf, tf, xf, ix, res) ==
    [sf |-> sf, tf |-> tf, xf |-> xf, ix |-> ix, res |-> res]

\* The loop of _create_index over the rows read.
RECURSIVE IndexRows(_, _, _)
IndexRows(index, rows, column_name) ==
    IF rows = <<>> THEN index
    ELSE IndexRows(
            IF column_name \in DOMAIN Head(rows).values
            THEN IndexAdd(index, Head(rows).values[column_name],
                          Head(rows).rowid)
            ELSE index,
            Tail(rows), column_name)

\* QueryExecutor._create_index: [ok, error, xf, ix].
create_index(sf, tf, xf, ix, t_name, column_name) ==
    LET Saved(ix1, index) ==
            [ok |-> TRUE, error |-> "",
             xf |-> Put(xf, index_path(t_name, column_name), index),
             ix |-> Put(ix1, t_name, Put(ix1[t_name], column_name, index))]
        Read(ix1, rd) ==
            IF ~rd.ok
            THEN [ok |-> FALSE, error |-> rd.error, xf |-> xf,
                  ix |-> Put(ix1, t_name,
                             Put(ix1[t_name], column_name, EmptyMap))]
            ELSE Saved(ix1, IndexRows(EmptyMap, rd.rows, column_name))
    IN  Read(IF t_name \notin DOMAIN ix THEN Put(ix, t_name, EmptyMap) ELSE ix,
             read_rows(sf, tf, t_name))

\* The loop of _execute_create_table over the PRIMARY KEY / UNIQUE columns.
RECURSIVE CreateIndexes(_, _, _, _, _, _)
CreateIndexes(sf, tf, xf, ix, t_name, columns) ==
    LET Then(one) ==
            IF ~one.ok THEN one
            ELSE CreateIndexes(sf, tf, one.xf, one.ix, t_name, Tail(columns))
    IN  IF columns = <<>>
        THEN [ok |-> TRUE, error |-> "", xf |-> xf, ix |-> ix]
        ELSE Then(create_index(sf, tf, xf, ix, t_name, Head(columns)))

\* QueryExecutor._execute_create_table
execute_create_table(sf, tf, xf, ix, t_name, columns) ==
    LET Indexed(sf1, tf1, made) ==
            Out(sf1, tf1, made.xf, made.ix,
                IF made.ok THEN QueryResult(Absent, 0) ELSE Raised(made.error))
        Saved(sf1, tf1) ==
            Indexed(sf1, tf1,
                    CreateIndexes(sf1, tf1, xf, Put(ix, t_name, EmptyMap), t_name,
                        SelectSeq(ColumnNames(columns),
                            LAMBDA c : ColumnOf(columns, c).primary_key
                                       \/ ColumnOf(columns, c).unique)))
    IN  Saved(save_schema(sf, t_name, columns), Put(tf, t_name, <<>>))

\* Index.save for every index of the table.
SaveIndexes(xf, t_name, table_indexes) ==
    [p \in DOMAIN xf \cup {index_path(t_name, c) : c \in DOMAIN table_indexes} |->
        IF \E c \in DOMAIN table_indexes : index_path(t_name, c) = p
        THEN table_indexes[CHOOSE c \in DOMAIN table_indexes :
                              index_path(t_name, c) = p]
        ELSE xf[p]]

\* The primary-key check of _execute_insert: TRUE when it raises.
DuplicatePrimaryKey(ix, schema, t_name, row) ==
    \E i \in 1..Len(schema) :
        /\ schema[i].primary_key
        /\ schema[i].name \in DOMAIN row
        /\ t_name \in DOMAIN ix
        /\ schema[i].name \in DOMAIN ix[t_name]
        /\ IndexHas(ix[t_name][schema[i].name], row[schema[i].name])

\* _execute_insert from "# Insert row" on: append, index, save.
InsertAndIndex(sf, tf, xf, ix, t_name, row) ==
    LET Indexed(ins, added) ==
            Out(sf, ins.tf, SaveIndexes(xf, t_name, added),
                Put(ix, t_name, added), QueryResult(Absent, 1))
        Appended(ins) ==
            IF ~ins.ok THEN Out(sf, ins.tf, xf, ix, Raised(ins.error))
            ELSE IF t_name \in DOMAIN ix
            THEN Indexed(ins,
                    [c \in DOMAIN ix[t_name] |->
                        IF c \in DOMAIN row
                        THEN IndexAdd(ix[t_name][c], row[c], ins.rowid)
                        ELSE ix[t_name][c]])
            ELSE Out(sf, ins.tf, xf, ix, QueryResult(Absent, 1))
    IN  Appended(insert_row(sf, tf, t_name, row))

\* The row map _execute_insert builds.  columns is Absent for VALUES only.
InsertedRow(schema, columns, values) ==
    IF columns = Absent THEN Zip(ColumnNames(schema), values)
    ELSE Zip(columns[1], values)

\* _execute_insert with storage.insert_row called before load_schema: the
\* open(path, 'a') of insert_row then runs for a table that has no schema.
execute_insert_append_first(sf, tf, xf, ix, t_name, columns, values) ==
    LET Checked(schema, row) ==
            IF ~validate_row(schema, row)
            THEN Out(sf, tf, xf, ix, Raised("constraint"))
            ELSE IF DuplicatePrimaryKey(ix, schema, t_name, row)
            THEN Out(sf, tf, xf, ix, Raised("duplicate_pk"))
            ELSE InsertAndIndex(sf, tf, xf, ix, t_name, row)
        Loaded(ls) ==
            IF ~ls.ok
            THEN InsertAndIndex(sf, tf, xf, ix, t_name, EmptyMap)
            ELSE IF columns = Absent /\ Len(values) # Len(ls.schema)
            THEN Out(sf, tf, xf, ix, Raised("value_count"))
            ELSE Checked(ls.schema, InsertedRow(ls.schema, columns, values))
    IN  Loaded(load_schema(sf, t_name))

\* _execute_insert with the primary-key check moved after the append.
execute_insert_check_last(sf, tf, xf, ix, t_name, columns, values) ==
    LET Done(duplicate, out) ==
            IF duplicate
            THEN Out(out.sf, out.tf, out.xf, out.ix, Raised("duplicate_pk"))
            ELSE out
        Checked(schema, row) ==
            IF ~validate_row(schema, row)
            THEN Out(sf, tf, xf, ix, Raised("constraint"))
            ELSE Done(DuplicatePrimaryKey(ix, schema, t_name, row),
                      InsertAndIndex(sf, tf, xf, ix, t_name, row))
        Loaded(ls) ==
            IF ~ls.ok THEN Out(sf, tf, xf, ix, Raised("not_found"))
            ELSE IF columns = Absent /\ Len(values) # Len(ls.schema)
            THEN Out(sf, tf, xf, ix, Raised("value_count"))
            ELSE Checked(ls.schema, InsertedRow(ls.schema, columns, values))
    IN  Loaded(load_schema(sf, t_name))

\* QueryExecutor._execute_insert
execute_insert(sf, tf, xf, ix, t_name, columns, values) ==
    LET Checked(schema, row) ==
            IF ~validate_row(schema, row)
            THEN Out(sf, tf, xf, ix, Raised("constraint"))
            ELSE IF DuplicatePrimaryKey(ix, schema, t_name, row)
            THEN Out(sf, tf, xf, ix, Raised("duplicate_pk"))
            ELSE InsertAndIndex(sf, tf, xf, ix, t_name, row)
        Loaded(ls) ==
            IF ~ls.ok THEN Out(sf, tf, xf, ix, Raised("not_found"))
            ELSE IF columns = Absent /\ Len(values) # Len(ls.schema)
            THEN Out(sf, tf, xf, ix, Raised("value_count"))
            ELSE Checked(ls.schema, InsertedRow(ls.schema, columns, values))
    IN  Loaded(load_schema(sf, t_name))

\* The WHERE test of _execute_update and _execute_delete: the parsed
\* operator is ignored, the comparison is ==; no WHERE matches every row.
ShouldChange(row, where) ==
    \/ where = Absent
    \/ /\ where[1].column \in DOMAIN row.values
       /\ PyEq(row.values[where[1].column], where[1].value)

\* index.remove(row.values[col_name], row.rowid) for every index of the table.
RemoveFromIndexes(table_indexes, row) ==
    [c \in DOMAIN table_indexes |->
        IF c \in DOMAIN row.values
        THEN IndexRemove(table_indexes[c], row.values[c], row.rowid)
        ELSE table_indexes[c]]

\* index.add(row.values[col_name], row.rowid) for every index of the table.
AddToIndexes(table_indexes, row) ==
    [c \in DOMAIN table_indexes |->
        IF c \in DOMAIN row.values
        THEN IndexAdd(table_indexes[c], row.values[c], row.rowid)
        ELSE table_indexes[c]]

\* for col, new_value in updates.items(): row.values[col] = new_value
ApplyUpdates(row, updates) ==
    [values |-> [c \in DOMAIN row.values \cup DOMAIN updates |->
                    IF c \in DOMAIN updates THEN updates[c]
                    ELSE row.values[c]],
     rowid |-> row.rowid]

\* The row loop of _execute_update, in row order:
\* [rows, table_indexes, count].
RECURSIVE UpdateLoop(_, _, _, _, _, _)
UpdateLoop(rows, done, table_indexes, updated_count, updates, where) ==
    LET Changed(row) ==
            UpdateLoop(Tail(rows), Append(done, row),
                       AddToIndexes(
                           RemoveFromIndexes(table_indexes, Head(rows)), row),
                       updated_count + 1, updates, where)
    IN  IF rows = <<>>
        THEN [rows |-> done, table_indexes |-> table_indexes,
              count |-> updated_count]
        ELSE IF ShouldChange(Head(rows), where)
        THEN Changed(ApplyUpdates(Head(rows), updates))
        ELSE UpdateLoop(Tail(rows), Append(done, Head(rows)), table_indexes,
                        updated_count, updates, where)

\* The row loop of _execute_delete: [rows (new_rows), table_indexes, count].
RECURSIVE DeleteLoop(_, _, _, _, _)
DeleteLoop(rows, new_rows, table_indexes, deleted_count, where) ==
    IF rows = <<>>
    THEN [rows |-> new_rows, table_indexes |-> table_indexes,
          count |-> deleted_count]
    ELSE IF ShouldChange(Head(rows), where)
    THEN DeleteLoop(Tail(rows), new_rows,
                    RemoveFromIndexes(table_indexes, Head(rows)),
                    deleted_count + 1, where)
    ELSE DeleteLoop(Tail(rows), Append(new_rows, Head(rows)), table_indexes,
                    deleted_count, where)

\* The tail shared by _execute_update and _execute_delete: when a row was
\* touched, rewrite the row file and save the indexes.  loop is the result
\* of the row loop; the in-memory indexes keep what the loop did to them.
RewriteAndSave(sf, tf, xf, ix, t_name, loop) ==
    LET Rewritten(ix1, rw) ==
            IF ~rw.ok THEN Out(sf, tf, xf, ix1, Raised(rw.error))
            ELSE IF t_name \in DOMAIN ix
            THEN Out(sf, rw.tf, SaveIndexes(xf, t_name, loop.table_indexes),
                     ix1, QueryResult(Absent, loop.count))
            ELSE Out(sf, rw.tf, xf, ix1, QueryResult(Absent, loop.count))
        Looped(ix1) ==
            IF loop.count = 0 THEN Out(sf, tf, xf, ix1, QueryResult(Absent, 0))
            ELSE Rewritten(ix1, rewrite_table(sf, tf, t_name, loop.rows))
    IN  Looped(IF t_name \in DOMAIN ix
               THEN Put(ix, t_name, loop.table_indexes) ELSE ix)

\* QueryExecutor._execute_update
execute_update(sf, tf, xf, ix, t_name, updates, where) ==
    LET Read(rd) ==
            IF ~rd.ok THEN Out(sf, tf, xf, ix, Raised(rd.error))
            ELSE RewriteAndSave(sf, tf, xf, ix, t_name,
                    UpdateLoop(rd.rows, <<>>,
                        IF t_name \in DOMAIN ix THEN ix[t_name] ELSE EmptyMap,
                        0, updates, where))
    IN  Read(read_rows(sf, tf, t_name))

\* QueryExecutor._execute_delete
execute_delete(sf, tf, xf, ix, t_name, where) ==
    LET Read(rd) ==
            IF ~rd.ok THEN Out(sf, tf, xf, ix, Raised(rd.error))
            ELSE RewriteAndSave(sf, tf, xf, ix, t_name,
                    DeleteLoop(rd.rows, <<>>,
                        IF t_name \in DOMAIN ix THEN ix[t_name] ELSE EmptyMap,
                        0, where))
    IN  Read(read_rows(sf, tf, t_name))

\* QueryExecutor._execute_drop_table: never raises.
execute_drop_table(sf, tf, xf, ix, t_name) ==
    LET Removed(paths) ==
            Out(Del(sf, t_name), Del(tf, t_name),
                [p \in DOMAIN xf \ paths |-> xf[p]],
                Del(ix, t_name), QueryResult(Absent, 0))
    IN  Removed(IF t_name \in DOMAIN ix
                THEN {index_path(t_name, c) : c \in DOMAIN ix[t_name]}
                ELSE {})

\* The table names a statement of the model can use.
TableNames == {"t", "users", "orders"}

\* The column _evaluate_condition looks up: a qualified name table.column
\* that is no key of values falls back to column when that is a key.
ConditionColumn(values, col) ==
    IF col \notin DOMAIN values
       /\ \E t \in TableNames, c \in DOMAIN values : col = t \o "." \o c
    THEN CHOOSE c \in DOMAIN values :
             \E t \in TableNames : col = t \o "." \o c
    ELSE col

\* QueryExecutor._evaluate_condition: AND, OR, and a CONDITION with the
\* operator = or !=.
RECURSIVE evaluate_condition(_, _)
evaluate_condition(values, condition) ==
    CASE condition.type = "AND" ->
            \A i \in 1..Len(condition.conditions) :
                evaluate_condition(values, condition.conditions[i])
      [] condition.type = "OR" ->
            \E i \in 1..Len(condition.conditions) :
                evaluate_condition(values, condition.conditions[i])
      [] condition.type = "CONDITION" /\ condition.operator = "=" ->
            PyEq(Get(values, ConditionColumn(values, condition.column)),
                 condition.value)
      [] condition.type = "CONDITION" /\ condition.operator = "!=" ->
            ~PyEq(Get(values, ConditionColumn(values, condition.column)),
                  condition.value)

\* QueryExecutor._apply_where_clause
apply_where_clause(rows, where) ==
    IF where = Absent THEN rows
    ELSE SelectSeq(rows, LAMBDA row : evaluate_condition(row.values, where[1]))

\* The projection loop of _execute_simple_select.
ProjectRows(filtered_rows, cols) ==
    [i \in 1..Len(filtered_rows) |->
        [c \in {cols[j] : j \in 1..Len(cols)} |->
            Get(filtered_rows[i].values, c)]]

\* The characters of the model's strings in code-point order.
CodePoints ==
    <<" ", "'", ",", "-", ".",
      "0", "1", "2", "3", "4", "5", "6", "7", "8", "9", "=", "\\">>
    \o Lowercase

Ord(c) == CHOOSE i \in 1..Len(CodePoints) : CodePoints[i] = c

\* s < t on Python strings.
RECURSIVE TextLess(_, _)
TextLess(s, t) ==
    IF t = <<>> THEN FALSE
    ELSE IF s = <<>> THEN TRUE
    ELSE IF Head(s) # Head(t) THEN Ord(Head(s)) < Ord(Head(t))
    ELSE TextLess(Tail(s), Tail(t))

\* sort_key of _apply_order_by: (1, '') for None, else (0, str(value).lower()).
sort_key(row, order_by_columns) ==
    [i \in 1..Len(order_by_columns) |->
        IF Get(row, order_by_columns[i]) = None
        THEN [rank |-> 1, text |-> <<>>]
        ELSE [rank |-> 0,
              text |-> Lower(PyStr(Get(row, order_by_columns[i])))]]

\* a < b on the lists of tuples sort_key returns.
RECURSIVE KeyLess(_, _)
KeyLess(a, b) ==
    IF b = <<>> THEN FALSE
    ELSE IF a = <<>> THEN TRUE
    ELSE IF Head(a) # Head(b)
    THEN \/ Head(a).rank < Head(b).rank
         \/ Head(a).rank = Head(b).rank /\ TextLess(Head(a).text, Head(b).text)
    ELSE KeyLess(Tail(a), Tail(b))

\* sorted(rows, key=sort_key): stable, each row goes after the rows already
\* placed whose key is not greater.
RECURSIVE SortLoop(_, _, _)
SortLoop(placed, rest, order_by_columns) ==
    LET Before(n) ==
            SortLoop(SubSeq(placed, 1, n) \o <<Head(rest)>>
                         \o SubSeq(placed, n + 1, Len(placed)),
                     Tail(rest), order_by_columns)
    IN  IF rest = <<>> THEN placed
        ELSE Before(Cardinality({i \in 1..Len(placed) :
                        ~KeyLess(sort_key(Head(rest), order_by_columns),
                                 sort_key(placed[i], order_by_columns))}))

\* QueryExecutor._apply_order_by; order_by is Absent without ORDER BY.
apply_order_by(rows, order_by) ==
    IF order_by = Absent \/ rows = <<>> THEN rows
    ELSE IF order_by[1] = <<>> THEN rows
    ELSE SortLoop(<<>>, rows, order_by[1])

\* QueryExecutor._execute_simple_select with ORDER BY.
\* selected_columns is <<"*">> or a list of column names.
select_ordered(sf, tf, xf, ix, t_name, selected_columns, where, order_by) ==
    LET Projected(result_rows) ==
            Out(sf, tf, xf, ix, QueryResult(Some(result_rows), Len(result_rows)))
        Read(schema, rd) ==
            IF ~rd.ok THEN Out(sf, tf, xf, ix, Raised(rd.error))
            ELSE Projected(apply_order_by(
                    ProjectRows(apply_where_clause(rd.rows, where),
                                IF selected_columns = <<"*">>
                                THEN ColumnNames(schema)
                                ELSE selected_columns),
                    order_by))
        Loaded(ls) ==
            IF ~ls.ok THEN Out(sf, tf, xf, ix, Raised("not_found"))
            ELSE Read(ls.schema, read_rows(sf, tf, t_name))
    IN  Loaded(load_schema(sf, t_name))

\* QueryExecutor._execute_simple_select for a statement without ORDER BY.
execute_simple_select(sf, tf, xf, ix, t_name, selected_columns, where) ==
    select_ordered(sf, tf, xf, ix, t_name, selected_columns, where, Absent)

\* The null side of a joined record (Python None).
NoRow == [values |-> EmptyMap, rowid |-> 0]

RECURSIVE Concat(_)
Concat(seqs) ==
    IF seqs = <<>> THEN <<>> ELSE Head(seqs) \o Concat(Tail(seqs))

\* right_map[key_value] of the joins: the right rows with that non-null
\* key, in file order.
RightMatches(right_rows, right_key, key_value) ==
    SelectSeq(right_rows,
              LAMBDA r : /\ Get(r.values, right_key) # None
                         /\ PyEq(Get(r.values, right_key), key_value))

\* _perform_inner_join with right_map[key] = [right_row] in place of the
\* append: a left row pairs with the last right row of its key only.
perform_inner_join_last_match(left_rows, right_rows, left_key, right_key) ==
    LET Last(matches) ==
            IF matches = <<>> THEN <<>> ELSE <<matches[Len(matches)]>>
        Paired(left_row, matches) ==
            [j \in 1..Len(matches) |->
                [left |-> left_row, right |-> matches[j]]]
    IN  Concat([i \in 1..Len(left_rows) |->
            IF Get(left_rows[i].values, left_key) # None
            THEN Paired(left_rows[i],
                        Last(RightMatches(right_rows, right_key,
                                     Get(left_rows[i].values, left_key))))
            ELSE <<>>])

\* _perform_inner_join without its two "is not None" tests: a null key
\* pairs with a null key.
perform_inner_join_null_keys(left_rows, right_rows, left_key, right_key) ==
    LET Paired(left_row, matches) ==
            [j \in 1..Len(matches) |->
                [left |-> left_row, right |-> matches[j]]]
    IN  Concat([i \in 1..Len(left_rows) |->
            Paired(left_rows[i],
                   SelectSeq(right_rows,
                       LAMBDA r : PyEq(Get(r.values, right_key),
                                       Get(left_rows[i].values, left_key))))])

\* QueryExecutor._perform_inner_join
perform_inner_join(left_rows, right_rows, left_key, right_key) ==
    LET Paired(left_row, matches) ==
            [j \in 1..Len(matches) |->
                [left |-> left_row, right |-> matches[j]]]
    IN  Concat([i \in 1..Len(left_rows) |->
            IF Get(left_rows[i].values, left_key) # None
            THEN Paired(left_rows[i],
                        RightMatches(right_rows, right_key,
                                     Get(left_rows[i].values, left_key)))
            ELSE <<>>])

\* _perform_left_join without its two else branches: a left row with no
\* match is dropped.
perform_left_join_drop_unmatched(left_rows, right_rows, left_key, right_key) ==
    LET Paired(left_row, matches) ==
            [j \in 1..Len(matches) |->
                [left |-> left_row, right |-> matches[j]]]
    IN  Concat([i \in 1..Len(left_rows) |->
            IF Get(left_rows[i].values, left_key) # None
            THEN Paired(left_rows[i],
                        RightMatches(right_rows, right_key,
                                     Get(left_rows[i].values, left_key)))
            ELSE <<>>])

\* QueryExecutor._perform_left_join
perform_left_join(left_rows, right_rows, left_key, right_key) ==
    LET Paired(left_row, matches) ==
            IF matches = <<>> THEN <<[left |-> left_row, right |-> NoRow]>>
            ELSE [j \in 1..Len(matches) |->
                    [left |-> left_row, right |-> matches[j]]]
    IN  Concat([i \in 1..Len(left_rows) |->
            IF Get(left_rows[i].values, left_key) # None
            THEN Paired(left_rows[i],
                        RightMatches(right_rows, right_key,
                                     Get(left_rows[i].values, left_key)))
            ELSE <<[left |-> left_rows[i], right |-> NoRow]>>])

\* QueryExecutor._perform_right_join: the left join of the swapped inputs,
\* left and right swapped in every record.
perform_right_join(left_rows, right_rows, left_key, right_key) ==
    LET Swapped(joined) ==
            [i \in 1..Len(joined) |->
                [left |-> joined[i].right, right |-> joined[i].left]]
    IN  Swapped(perform_left_join(right_rows, left_rows, right_key, left_key))

\* The values _apply_where_clause_to_joined evaluates a condition on: every
\* column with and without its table prefix, the right side written last.
JoinedValues(joined_row, left_table, right_table) ==
    LET Side(row, table) ==
            [c \in DOMAIN row.values \cup
                   {table \o "." \o k : k \in DOMAIN row.values} |->
                IF c \in DOMAIN row.values THEN row.values[c]
                ELSE row.values[CHOOSE k \in DOMAIN row.values :
                                    c = table \o "." \o k]]
        Merged(l, r) ==
            [c \in DOMAIN l \cup DOMAIN r |->
                IF c \in DOMAIN r THEN r[c] ELSE l[c]]
    IN  Merged(Side(joined_row.left, left_table),
               Side(joined_row.right, right_table))

\* QueryExecutor._apply_where_clause_to_joined
apply_where_clause_to_joined(joined_rows, where, left_table, right_table) ==
    IF where = Absent THEN joined_rows
    ELSE SelectSeq(joined_rows,
            LAMBDA j : evaluate_condition(
                          JoinedValues(j, left_table, right_table), where[1]))

\* The SELECT * projection of _execute_join_select: every column of both
\* schemas under its qualified name, None on a null side.
ProjectJoinedStar(filtered_rows, left_table, left_schema, right_table, right_schema) ==
    [i \in 1..Len(filtered_rows) |->
        [q \in {left_table \o "." \o c : c \in ColumnSet(left_schema)}
               \cup {right_table \o "." \o c : c \in ColumnSet(right_schema)} |->
            IF \E c \in ColumnSet(right_schema) : q = right_table \o "." \o c
            THEN Get(filtered_rows[i].right.values,
                     CHOOSE c \in ColumnSet(right_schema) :
                         q = right_table \o "." \o c)
            ELSE Get(filtered_rows[i].left.values,
                     CHOOSE c \in ColumnSet(left_schema) :
                         q = left_table \o "." \o c)]]

\* One selected column of a joined record: table.column is looked up on
\* the side of that table, a bare column on the left side, then the right.
JoinedColumn(joined_row, col_spec, left_table, right_table) ==
    IF \E c \in DOMAIN joined_row.left.values : col_spec = left_table \o "." \o c
    THEN joined_row.left.values[CHOOSE c \in DOMAIN joined_row.left.values :
                                    col_spec = left_table \o "." \o c]
    ELSE IF \E c \in DOMAIN joined_row.right.values :
                col_spec = right_table \o "." \o c
    THEN joined_row.right.values[CHOOSE c \in DOMAIN joined_row.right.values :
                                     col_spec = right_table \o "." \o c]
    ELSE IF col_spec \in DOMAIN joined_row.left.values
    THEN joined_row.left.values[col_spec]
    ELSE Get(joined_row.right.values, col_spec)

\* The projection of _execute_join_select on a column list.
ProjectJoined(filtered_rows, cols, left_table, right_table) ==
    [i \in 1..Len(filtered_rows) |->
        [c \in {cols[j] : j \in 1..Len(cols)} |->
            JoinedColumn(filtered_rows[i], c, left_table, right_table)]]

\* QueryExecutor._execute_join_select.  on is [left_column, right_column].
execute_join_select(sf, tf, xf, ix, join_type, left_table, right_table, on, selected_columns, where, order_by) ==
    LET Ordered(result_rows) ==
            Out(sf, tf, xf, ix, QueryResult(Some(result_rows), Len(result_rows)))
        Filtered(left_schema, right_schema, filtered_rows) ==
            Ordered(apply_order_by(
                IF selected_columns = <<"*">>
                THEN ProjectJoinedStar(filtered_rows, left_table, left_schema,
                                       right_table, right_schema)
                ELSE ProjectJoined(filtered_rows, selected_columns,
                                   left_table, right_table),
                order_by))
        Joined(left_schema, right_schema, joined_rows) ==
            Filtered(left_schema, right_schema,
                     apply_where_clause_to_joined(joined_rows, where,
                                                  left_table, right_table))
        Read(left_schema, right_schema, left, right) ==
            IF ~left.ok THEN Out(sf, tf, xf, ix, Raised(left.error))
            ELSE IF ~right.ok THEN Out(sf, tf, xf, ix, Raised(right.error))
            ELSE Joined(left_schema, right_schema,
                    CASE join_type = "INNER" ->
                            perform_inner_join(left.rows, right.rows,
                                               on.left_column, on.right_column)
                      [] join_type = "LEFT" ->
                            perform_left_join(left.rows, right.rows,
                                              on.left_column, on.right_column)
                      [] join_type = "RIGHT" ->
                            perform_right_join(left.rows, right.rows,
                                               on.left_column, on.right_column))
        Loaded(ll, lr) ==
            IF ~ll.ok \/ ~lr.ok THEN Out(sf, tf, xf, ix, Raised("not_found"))
            ELSE Read(ll.schema, lr.schema, read_rows(sf, tf, left_table),
                      read_rows(sf, tf, right_table))
    IN  Loaded(load_schema(sf, left_table), load_schema(sf, right_table))

(***************************************************************************)
(* The state machine.  One action per command kind of execute, one for a   *)
(* new Database object on the same directory.                              *)
(***************************************************************************)
Command(type, t_name, columns, values, updates, where) ==
    [type |-> type, t_name |-> t_name, columns |-> columns,
     values |-> values, updates |-> updates, where |-> where]

NoCommand == Command("NONE", "", <<>>, <<>>, EmptyMap, Absent)

Untracked == [tracked |-> FALSE, rows |-> <<>>]

\* execute leaves the state out, having run the parsed command c.
Executed(out, c) ==
    /\ schema_files' = out.sf
    /\ table_files' = out.tf
    /\ index_files' = out.xf
    /\ indexes' = out.ix
    /\ result' = out.res
    /\ cmd' = c
    /\ turn' = 1 - turn
    /\ opens' = opens

CreateTable(t_name, columns) ==
    LET out == execute_create_table(schema_files, table_files, index_files,
                                    indexes, t_name, columns)
    IN  /\ Executed(out, Command("CREATE_TABLE", t_name, columns, <<>>,
                                 EmptyMap, Absent))
        /\ created_here' = created_here \cup {t_name}
        /\ inserted' = [inserted EXCEPT ![t_name] =
                            [tracked |-> TRUE, rows |-> <<>>]]

Insert(t_name, columns, values) ==
    /\ t_name \in DOMAIN table_files => Len(table_files[t_name]) < MaxRows
    /\ Executed(execute_insert(schema_files, table_files, index_files,
                               indexes, t_name, columns, values),
                Command("INSERT", t_name, columns, values, EmptyMap, Absent))
    /\ created_here' = created_here
    /\ inserted' =
          IF result'.ok /\ inserted[t_name].tracked
          THEN [inserted EXCEPT ![t_name].rows =
                  Append(@, InsertedRow(load_schema(schema_files, t_name).schema,
                                        columns, values))]
          ELSE inserted

Select(t_name, columns, where) ==
    LET out == execute_simple_select(schema_files, table_files, index_files,
                                     indexes, t_name, columns, where)
    IN  /\ Executed(out, Command("SELECT", t_name, columns, <<>>,
                                 EmptyMap, where))
        /\ UNCHANGED <<created_here, inserted>>

\* The characters \w matches.
IsWord(c) ==
    \/ c = "_"
    \/ IsDigit(c)
    \/ \E i \in 1..26 : c = Lowercase[i] \/ c = Uppercase[i]

\* The characters of the operator class [=<>!].
IsOperatorChar(c) == c \in {"=", "<", ">", "!"}

\* The character classes of the parser's patterns: \w, \s, \S, [=<>!].
InClass(c, class) ==
    CASE class = "w" -> IsWord(c)
      [] class = "s" -> IsSpace(c)
      [] class = "S" -> ~IsSpace(c)
      [] class = "operator" -> IsOperatorChar(c)

\* The length of the longest prefix of s made of characters in the class.
SpanLen(s, class) ==
    CHOOSE n \in 0..Len(s) :
        /\ \A i \in 1..n : InClass(s[i], class)
        /\ n = Len(s) \/ ~InClass(s[n + 1], class)

\* s[m-1:n] of Python, positions counted from 1: the bounds are clipped.
Slice(s, m, n) ==
    SubSeq(s, IF m < 1 THEN 1 ELSE m, IF n > Len(s) THEN Len(s) ELSE n)

\* A sequence of characters as one string (a column name).
RECURSIVE Text(_)
Text(chars) == IF chars = <<>> THEN "" ELSE Head(chars) \o Text(Tail(chars))

\* needle in haystack
Contains(haystack, needle) ==
    \E i \in 1..(Len(haystack) - Len(needle) + 1) :
        Slice(haystack, i, i + Len(needle) - 1) = needle

\* SQLParser._parse_value.  A float literal of the model has one decimal.
parse_value(raw) ==
    LET value == Strip(raw)
        Quoted(q) == value # <<>> /\ Head(value) = q /\ value[Len(value)] = q
        negative == value # <<>> /\ Head(value) = "-"
        unsigned == IF negative THEN Tail(value) ELSE value
        AllDigits(t) == t # <<>> /\ \A i \in 1..Len(t) : IsDigit(t[i])
        whole == Slice(unsigned, 1, Len(unsigned) - 2)
        Signed(n) == IF negative THEN -n ELSE n
    IN  IF Upper(value) = <<"N", "U", "L", "L">> THEN None
        ELSE IF Quoted("'") \/ Quoted("\"")
        THEN StrVal(Slice(value, 2, Len(value) - 1))
        ELSE IF Upper(value) = <<"T", "R", "U", "E">> THEN BoolVal(TRUE)
        ELSE IF Upper(value) = <<"F", "A", "L", "S", "E">> THEN BoolVal(FALSE)
        ELSE IF AllDigits(unsigned) THEN IntVal(Signed(DigitsToNat(unsigned, 0)))
        ELSE IF /\ Len(unsigned) >= 3
                /\ AllDigits(whole)
                /\ unsigned[Len(unsigned) - 1] = "."
                /\ IsDigit(unsigned[Len(unsigned)])
        THEN FloatVal(Signed(DigitsToNat(whole, 0) * 10
                             + DigitValue(unsigned[Len(unsigned)])))
        ELSE StrVal(value)

\* SQLParser._parse_simple_condition: column, blanks, an operator
\* ([=<>!]+, LIKE or IN), blanks, and the rest as the value; the column is
\* a word, or table.column when the word is followed by no operator.
\* ok is FALSE where the code raises ValueError.
parse_simple_condition(condition) ==
    LET Match(column_len) ==
            LET rest == LStrip(Slice(condition, column_len + 1,
                                      Len(condition)))
                operator_len ==
                    IF SpanLen(rest, "operator") > 0
                    THEN SpanLen(rest, "operator")
                    ELSE IF Upper(Slice(rest, 1, 4)) = <<"L", "I", "K", "E">>
                    THEN 4
                    ELSE IF Upper(Slice(rest, 1, 2)) = <<"I", "N">> THEN 2
                    ELSE 0
                raw_value == Slice(rest, operator_len + 1, Len(rest))
            IN  [ok |-> column_len > 0 /\ operator_len > 0 /\ raw_value # <<>>,
                 condition |->
                    [type |-> "CONDITION",
                     column |-> Text(Lower(Slice(condition, 1, column_len))),
                     operator |-> Text(Upper(Slice(rest, 1, operator_len))),
                     value |-> parse_value(raw_value)]]
        word == SpanLen(condition, "w")
        after == Slice(condition, word + 1, Len(condition))
        dotted == IF word > 0 /\ after # <<>> /\ Head(after) = "."
                     /\ SpanLen(Tail(after), "w") > 0
                  THEN word + 1 + SpanLen(Tail(after), "w")
                  ELSE 0
    IN  IF Match(word).ok THEN Match(word) ELSE Match(dotted)

\* The end of the match of \s+<keyword><class>+ that starts at s[i], or 0.
KeywordMatch(s, i, keyword, class) ==
    LET blanks == SpanLen(Slice(s, i, Len(s)), "s")
        k == i + blanks
        tail == Slice(s, k + Len(keyword), Len(s))
    IN  IF /\ blanks > 0
           /\ Upper(Slice(s, k, k + Len(keyword) - 1)) = keyword
           /\ SpanLen(tail, class) > 0
        THEN k + Len(keyword) - 1 + SpanLen(tail, class)
        ELSE 0

\* re.split(r'\s+AND\S+', s, flags=re.IGNORECASE): the separator is AND
\* followed at once by characters that are not blanks.
RECURSIVE SplitAnd(_)
SplitAnd(s) ==
    LET starts == {i \in 1..Len(s) :
                      KeywordMatch(s, i, <<"A", "N", "D">>, "S") > 0}
        Cut(i) ==
            <<Slice(s, 1, i - 1)>>
            \o SplitAnd(Slice(s,
                   KeywordMatch(s, i, <<"A", "N", "D">>, "S") + 1,
                   Len(s)))
    IN  IF starts = {} THEN <<s>>
        ELSE Cut(CHOOSE i \in starts : \A j \in starts : i <= j)

\* re.split(r'\s+OR\s+', s, flags=re.IGNORECASE)
RECURSIVE SplitOr(_)
SplitOr(s) ==
    LET starts == {i \in 1..Len(s) :
                      KeywordMatch(s, i, <<"O", "R">>, "s") > 0}
        Cut(i) ==
            <<Slice(s, 1, i - 1)>>
            \o SplitOr(Slice(s,
                   KeywordMatch(s, i, <<"O", "R">>, "s") + 1, Len(s)))
    IN  IF starts = {} THEN <<s>>
        ELSE Cut(CHOOSE i \in starts : \A j \in starts : i <= j)

\* SQLParser._parse_where_clause
parse_where_clause(where_clause) ==
    LET clause == Strip(where_clause)
        Compound(type, parts) ==
            LET parsed == [i \in 1..Len(parts) |->
                              parse_simple_condition(Strip(parts[i]))]
            IN  [ok |-> \A i \in 1..Len(parts) : parsed[i].ok,
                 condition |->
                    [type |-> type,
                     conditions |-> [i \in 1..Len(parts) |->
                                        parsed[i].condition]]]
    IN  IF Contains(Upper(clause), <<" ", "A", "N", "D", " ">>)
        THEN Compound("AND", SplitAnd(clause))
        ELSE IF Contains(Upper(clause), <<" ", "O", "R", " ">>)
        THEN Compound("OR", SplitOr(clause))
        ELSE parse_simple_condition(clause)

\* The parsed SELECT of a simple FROM with a WHERE clause; where_clause is
\* the text of the clause in the statement.
WhereCommand(t_name, columns, where, where_clause) ==
    [type |-> "SELECT", t_name |-> t_name, columns |-> columns,
     values |-> <<>>, updates |-> EmptyMap, where |-> where,
     where_clause |-> where_clause]

\* SELECT columns FROM t_name WHERE where_clause
SelectWhere(t_name, columns, where_clause) ==
    LET Parsed(parsed) ==
            IF ~parsed.ok
            THEN Executed(Out(schema_files, table_files, index_files, indexes,
                              Raised("invalid_condition")),
                          WhereCommand(t_name, columns, Absent, where_clause))
            ELSE Executed(execute_simple_select(schema_files, table_files,
                              index_files, indexes, t_name, columns,
                              Some(parsed.condition)),
                          WhereCommand(t_name, columns, Some(parsed.condition),
                                       where_clause))
    IN  /\ Parsed(parse_where_clause(where_clause))
        /\ UNCHANGED <<created_here, inserted>>

\* SQLParser._parse_select on an ORDER BY clause: str.lower is stored
\* uncalled, so each parsed entry is a method object, which equals no
\* column name.
parse_order_by(order_by_columns) ==
    [i \in 1..Len(order_by_columns) |->
        "<built-in method lower of str '" \o order_by_columns[i] \o "'>"]

\* The parsed SELECT of a simple FROM with an ORDER BY clause.
OrderedCommand(t_name, columns, where, order_by) ==
    [type |-> "SELECT", t_name |-> t_name, columns |-> columns,
     values |-> <<>>, updates |-> EmptyMap, where |-> where,
     order_by |-> order_by]

\* SELECT columns FROM t_name [WHERE where] ORDER BY order_by_columns
SelectOrdered(t_name, columns, where, order_by_columns) ==
    LET out == select_ordered(schema_files, table_files, index_files,
                              indexes, t_name, columns, where,
                              Some(parse_order_by(order_by_columns)))
    IN  /\ Executed(out, OrderedCommand(t_name, columns, where,
                            Some(parse_order_by(order_by_columns))))
        /\ UNCHANGED <<created_here, inserted>>

\* The parsed SELECT of a JOIN; t_name is the left table.
JoinCommand(join_type, left_table, right_table, on, columns, where, order_by) ==
    [type |-> "SELECT", t_name |-> left_table, columns |-> columns,
     values |-> <<>>, updates |-> EmptyMap, where |-> where,
     order_by |-> order_by, join_type |-> join_type,
     right_table |-> right_table, on |-> on]

\* SELECT columns FROM left_table <join_type> JOIN right_table
\*     ON left_table.<on.left_column> = right_table.<on.right_column>
\*     [ORDER BY order_by_columns]
JoinSelect(join_type, left_table, right_table, on, columns, order_by) ==
    LET out == execute_join_select(schema_files, table_files, index_files,
                                   indexes, join_type, left_table,
                                   right_table, on, columns, Absent, order_by)
    IN  /\ Executed(out, JoinCommand(join_type, left_table, right_table, on,
                                     columns, Absent, order_by))
        /\ UNCHANGED <<created_here, inserted>>

Update(t_name, updates, where) ==
    LET out == execute_update(schema_files, table_files, index_files,
                              indexes, t_name, updates, where)
    IN  /\ Executed(out, Command("UPDATE", t_name, <<>>, <<>>, updates, where))
        /\ created_here' = created_here
        /\ inserted' = [inserted EXCEPT ![t_name] = Untracked]

Delete(t_name, where) ==
    LET out == execute_delete(schema_files, table_files, index_files,
                              indexes, t_name, where)
    IN  /\ Executed(out, Command("DELETE", t_name, <<>>, <<>>, EmptyMap, where))
        /\ created_here' = created_here
        /\ inserted' = [inserted EXCEPT ![t_name] = Untracked]

\* The WHERE part of SQLParser._parse_delete: the clause is matched against
\* (\w+)\s*([=<>!]+)\s*(.+); where stays None when it does not match.
\* The code names the operator field 'op'; nothing reads it.
parse_delete_where(where_clause) ==
    LET clause == Strip(where_clause)
        word == SpanLen(clause, "w")
        rest == LStrip(Slice(clause, word + 1, Len(clause)))
        run == SpanLen(rest, "operator")
        operator_len == IF run >= 2 /\ run = Len(rest) THEN run - 1 ELSE run
        raw_value == Slice(rest, operator_len + 1, Len(rest))
    IN  IF word > 0 /\ operator_len > 0 /\ raw_value # <<>>
        THEN Some([column |-> Text(Lower(Slice(clause, 1, word))),
                   operator |-> Text(Slice(rest, 1, operator_len)),
                   value |-> parse_value(raw_value)])
        ELSE Absent

\* The parsed DELETE of a statement with a WHERE clause; where_clause is the
\* text of the clause in the statement.
DeleteCommand(t_name, where, where_clause) ==
    [type |-> "DELETE", t_name |-> t_name, columns |-> <<>>, values |-> <<>>,
     updates |-> EmptyMap, where |-> where, where_clause |-> where_clause]

\* DELETE FROM t_name WHERE where_clause
DeleteWhere(t_name, where_clause) ==
    LET Parsed(where) ==
            Executed(execute_delete(schema_files, table_files, index_files,
                                    indexes, t_name, where),
                     DeleteCommand(t_name, where, where_clause))
    IN  /\ Parsed(parse_delete_where(where_clause))
        /\ created_here' = created_here
        /\ inserted' = [inserted EXCEPT ![t_name] = Untracked]

DropTable(t_name) ==
    LET out == execute_drop_table(schema_files, table_files, index_files,
                                  indexes, t_name)
    IN  /\ Executed(out, Command("DROP_TABLE", t_name, <<>>, <<>>,
                                 EmptyMap, Absent))
        /\ created_here' = created_here \ {t_name}
        /\ inserted' = [inserted EXCEPT ![t_name] = Untracked]

\* Database.__init__ on the same db_path: a new QueryExecutor, whose
\* indexes map is empty; the files stay.
Reopen ==
    /\ opens < MaxOpens
    /\ opens' = opens + 1
    /\ indexes' = EmptyMap
    /\ created_here' = {}
    /\ cmd' = NoCommand
    /\ result' = QueryResult(Absent, 0)
    /\ inserted' = [t \in DOMAIN inserted |-> Untracked]
    /\ UNCHANGED <<schema_files, table_files, index_files, turn>>

(***************************************************************************)
(* Specification Spec: sessions of commands on one table.                  *)
(***************************************************************************)
Tables == {"t"}

\* CREATE TABLE t (id INT PRIMARY KEY, name VARCHAR(50) UNIQUE NOT NULL)
AccountsSchema ==
    <<Column("id", "INTEGER", TRUE, TRUE, TRUE),
      Column("name", "VARCHAR", FALSE, TRUE, FALSE)>>

Schemas == {AccountsSchema}

IdValues == {IntVal(1), IntVal(2), None}

NameValues == {StrVal(<<"a">>), StrVal(<<"b">>)}

\* The INSERT statements of a session: VALUES (id, name), VALUES (id) (one
\* value too few), (id) VALUES (..) (name omitted) and (name) VALUES (..).
Inserts ==
    {[columns |-> Absent, values |-> <<i, n>>] :
        i \in IdValues, n \in NameValues}
    \cup {[columns |-> Absent, values |-> <<IntVal(1)>>]}
    \cup {[columns |-> Some(<<"id">>), values |-> <<IntVal(1)>>]}
    \cup {[columns |-> Some(<<"name">>), values |-> <<StrVal(<<"a">>)>>]}

\* SET id = .. and SET name = ..
Assignments ==
    {[c \in {"id"} |-> v] : v \in IdValues}
    \cup {[c \in {"name"} |-> StrVal(<<"a">>)]}

\* WHERE id = .. and WHERE name = ..
Conditions ==
    {[column |-> "id", operator |-> "=", value |-> v] :
        v \in {IntVal(1), IntVal(2)}}
    \cup {[column |-> "name", operator |-> "=", value |-> StrVal(<<"a">>)]}

Init ==
    /\ schema_files = EmptyMap
    /\ table_files = EmptyMap
    /\ index_files = EmptyMap
    /\ indexes = EmptyMap
    /\ cmd = NoCommand
    /\ result = QueryResult(Absent, 0)
    /\ turn = 0
    /\ opens = 1
    /\ created_here = {}
    /\ inserted = [t \in Tables |-> Untracked]

\* One Database object: every command kind, on the table t.
Next ==
    \/ \E t \in Tables, columns \in Schemas : CreateTable(t, columns)
    \/ \E t \in Tables, i \in Inserts : Insert(t, i.columns, i.values)
    \/ \E t \in Tables, columns \in {<<"*">>, <<"id">>} :
          Select(t, columns, Absent)
    \/ \E t \in Tables, updates \in Assignments, where \in Conditions :
          Update(t, updates, Some(where))
    \/ \E t \in Tables, where \in {Absent} \cup {Some(c) : c \in Conditions} :
          Delete(t, where)
    \/ \E t \in Tables : DropTable(t)

Spec == Init /\ [][Next]_vars

(***************************************************************************)
(* Specification SpecReopen: the directory outlives the Database object.   *)
(* A later object finds the files of an earlier one.                       *)
(***************************************************************************)
NextReopen ==
    \/ \E t \in Tables, columns \in Schemas : CreateTable(t, columns)
    \/ \E t \in Tables, i \in Inserts : Insert(t, i.columns, i.values)
    \/ \E t \in Tables : Select(t, <<"*">>, Absent)
    \/ \E t \in Tables : Delete(t, Absent)
    \/ \E t \in Tables : DropTable(t)
    \/ Reopen

SpecReopen == Init /\ [][NextReopen]_vars

(***************************************************************************)
(* Specification SpecRoundTrip: values of every kind written to a fresh    *)
(* table and read back.  Each INSERT gives every column a value its type   *)
(* takes (a float literal goes to a VARCHAR column: there is no float      *)
(* type).                                                                  *)
(***************************************************************************)
\* CREATE TABLE t (v INT PRIMARY KEY)
IntKeySchema == <<Column("v", "INTEGER", TRUE, TRUE, TRUE)>>

\* CREATE TABLE t (v VARCHAR(20) PRIMARY KEY)
TextKeySchema == <<Column("v", "VARCHAR", TRUE, TRUE, TRUE)>>

\* CREATE TABLE t (v BOOLEAN)
FlagSchema == <<Column("v", "BOOLEAN", FALSE, FALSE, TRUE)>>

\* CREATE TABLE t (v VARCHAR(20), n INT)
PairSchema ==
    <<Column("v", "VARCHAR", FALSE, FALSE, TRUE),
      Column("n", "INTEGER", FALSE, FALSE, TRUE)>>

RoundTripSchemas == {IntKeySchema, TextKeySchema, FlagSchema, PairSchema}

\* The literals 'a', 'a,b', '' and 1.5; -3 and 10; TRUE and FALSE; NULL.
ValuesOfType(dtype) ==
    CASE dtype = "INTEGER" -> {IntVal(-3), IntVal(10), None}
      [] dtype = "BOOLEAN" -> {BoolVal(TRUE), BoolVal(FALSE), None}
      [] OTHER -> {StrVal(<<"a">>), StrVal(<<"a", ",", "b">>), StrVal(<<>>),
                   FloatVal(15), None}

\* VALUES (..) lists with one well-typed value per column of the schema.
TypedValueLists(schema) ==
    IF Len(schema) = 1
    THEN {<<v>> : v \in ValuesOfType(schema[1].dtype)}
    ELSE {<<v, w>> : v \in ValuesOfType(schema[1].dtype),
                     w \in ValuesOfType(schema[2].dtype)}

NextRoundTrip ==
    \/ \E t \in Tables, columns \in RoundTripSchemas : CreateTable(t, columns)
    \/ \E t \in DOMAIN schema_files :
          \E values \in TypedValueLists(load_schema(schema_files, t).schema) :
              Insert(t, Absent, values)
    \/ \E t \in Tables, columns \in {<<"*">>, <<"v">>} :
          Select(t, columns, Absent)

SpecRoundTrip == Init /\ [][NextRoundTrip]_vars

(***************************************************************************)
(* Specification SpecUpdate: UPDATE with one assignment and an equality    *)
(* WHERE, on a one-column and a two-column table, with the strings and     *)
(* integers of SpecRoundTrip that an UPDATE statement can carry.           *)
(***************************************************************************)
UpdateSchemas == {TextKeySchema, PairSchema}

\* The strings and integers a SET clause can carry to a column of the type:
\* _parse_update splits the SET clause on every comma, so a string with a
\* comma never reaches the executor.
SetValues(dtype) ==
    {v \in ValuesOfType(dtype) :
        v.k \in {"str", "int"} /\ \A i \in 1..Len(v.s) : v.s[i] # ","}

\* VALUES (..) lists of such values, one per column of the schema.
SetValueLists(schema) ==
    IF Len(schema) = 1
    THEN {<<v>> : v \in SetValues(schema[1].dtype)}
    ELSE {<<v, w>> : v \in SetValues(schema[1].dtype),
                     w \in SetValues(schema[2].dtype)}

NextUpdate ==
    \/ \E t \in Tables, columns \in UpdateSchemas : CreateTable(t, columns)
    \/ \E t \in DOMAIN schema_files :
          \E values \in SetValueLists(load_schema(schema_files, t).schema) :
              Insert(t, Absent, values)
    \/ \E t \in DOMAIN schema_files :
          \E c, k \in ColumnSet(load_schema(schema_files, t).schema) :
              \E v \in SetValues(ColumnOf(load_schema(schema_files, t).schema,
                                          c).dtype),
                 x \in SetValues(ColumnOf(load_schema(schema_files, t).schema,
                                          k).dtype) :
                  Update(t, [col \in {c} |-> v],
                         Some([column |-> k, operator |-> "=", value |-> x]))
    \/ \E t \in Tables : Select(t, <<"*">>, Absent)

SpecUpdate == Init /\ [][NextUpdate]_vars

(***************************************************************************)
(* Specification SpecJoin: INNER, LEFT and RIGHT joins of two tables, in   *)
(* both directions, on keys that repeat and keys that are null.            *)
(***************************************************************************)
JoinTables == {"users", "orders"}

\* CREATE TABLE users (id INT, name VARCHAR(20))
UsersSchema ==
    <<Column("id", "INTEGER", FALSE, FALSE, TRUE),
      Column("name", "VARCHAR", FALSE, FALSE, TRUE)>>

\* CREATE TABLE orders (uid INT)
OrdersSchema == <<Column("uid", "INTEGER", FALSE, FALSE, TRUE)>>

JoinSchema(t) == IF t = "users" THEN UsersSchema ELSE OrdersSchema

KeyValues == {IntVal(1), IntVal(2), None}

JoinInserts(t) ==
    IF t = "users" THEN {<<i, n>> : i \in KeyValues, n \in NameValues}
    ELSE {<<u>> : u \in KeyValues}

JoinTypes == {"INNER", "LEFT", "RIGHT"}

\* users <join> orders ON users.id = orders.uid, and
\* orders <join> users ON orders.uid = users.id
JoinFroms ==
    {[left_table |-> "users", right_table |-> "orders",
      on |-> [left_column |-> "id", right_column |-> "uid"]],
     [left_table |-> "orders", right_table |-> "users",
      on |-> [left_column |-> "uid", right_column |-> "id"]]}

InitJoin ==
    /\ schema_files = EmptyMap
    /\ table_files = EmptyMap
    /\ index_files = EmptyMap
    /\ indexes = EmptyMap
    /\ cmd = NoCommand
    /\ result = QueryResult(Absent, 0)
    /\ turn = 0
    /\ opens = 1
    /\ created_here = {}
    /\ inserted = [t \in JoinTables |-> Untracked]

NextJoin ==
    \/ \E t \in JoinTables : CreateTable(t, JoinSchema(t))
    \/ \E t \in JoinTables : \E values \in JoinInserts(t) :
          Insert(t, Absent, values)
    \/ \E join_type \in JoinTypes, from \in JoinFroms :
          JoinSelect(join_type, from.left_table, from.right_table, from.on,
                     <<"*">>, Absent)

SpecJoin == InitJoin /\ [][NextJoin]_vars

(***************************************************************************)
(* Specification SpecQuery: SELECT with ORDER BY and with compound WHERE   *)
(* clauses on one table whose columns hold repeated and null values.       *)
(***************************************************************************)
\* CREATE TABLE t (id INT, name VARCHAR(20))
QuerySchema ==
    <<Column("id", "INTEGER", FALSE, FALSE, TRUE),
      Column("name", "VARCHAR", FALSE, FALSE, TRUE)>>

QueryNames == {StrVal(<<"a">>), StrVal(<<"B">>)}

QueryInserts == {<<i, n>> : i \in KeyValues, n \in QueryNames}

\* ORDER BY id, ORDER BY name and ORDER BY name, id
OrderByLists == {<<"id">>, <<"name">>, <<"name", "id">>}

\* id = 1, id != 1 and name = 'a'
ConditionTexts ==
    {<<"i", "d", " ", "=", " ", "1">>,
     <<"i", "d", " ", "!", "=", " ", "1">>,
     <<"n", "a", "m", "e", " ", "=", " ", "'", "a", "'">>}

AndClause(c1, c2) == c1 \o <<" ", "A", "N", "D", " ">> \o c2

OrClause(c1, c2) == c1 \o <<" ", "O", "R", " ">> \o c2

\* WHERE cond, WHERE cond1 AND cond2 and WHERE cond1 OR cond2
WhereClauses ==
    ConditionTexts
    \cup {AndClause(c1, c2) : c1, c2 \in ConditionTexts}
    \cup {OrClause(c1, c2) : c1, c2 \in ConditionTexts}

NextQuery ==
    \/ \E t \in Tables : CreateTable(t, QuerySchema)
    \/ \E t \in Tables : \E values \in QueryInserts :
          Insert(t, Absent, values)
    \/ \E t \in Tables : \E order_by_columns \in OrderByLists :
          SelectOrdered(t, <<"*">>, Absent, order_by_columns)
    \/ \E t \in Tables : \E where_clause \in WhereClauses :
          SelectWhere(t, <<"*">>, where_clause)

SpecQuery == Init /\ [][NextQuery]_vars

(***************************************************************************)
(* Specification SpecSession: one Database object, one CREATE TABLE of     *)
(* each table, then INSERT, UPDATE, DELETE and SELECT in any order.        *)
(***************************************************************************)
NextSession ==
    \/ \E t \in Tables, columns \in Schemas :
          /\ t \notin DOMAIN schema_files
          /\ CreateTable(t, columns)
    \/ \E t \in Tables, i \in Inserts : Insert(t, i.columns, i.values)
    \/ \E t \in Tables : Select(t, <<"*">>, Absent)
    \/ \E t \in Tables, updates \in Assignments, where \in Conditions :
          Update(t, updates, Some(where))
    \/ \E t \in Tables, where \in {Absent} \cup {Some(c) : c \in Conditions} :
          Delete(t, where)

SpecSession == Init /\ [][NextSession]_vars

(***************************************************************************)
(* Specification SpecDelete: DELETE statements as written, with WHERE      *)
(* clauses of several operators and column spellings.                      *)
(***************************************************************************)
\* WHERE id = 1, id != 1, name = 'a', name LIKE 'a' and t.id = 1: the
\* clause as written, the column it names and its literal.
DeleteConditions ==
    {[written |-> <<"i", "d">>, column |-> "id",
      operator |-> <<"=">>, literal |-> <<"1">>],
     [written |-> <<"i", "d">>, column |-> "id",
      operator |-> <<"!", "=">>, literal |-> <<"1">>],
     [written |-> <<"n", "a", "m", "e">>, column |-> "name",
      operator |-> <<"=">>, literal |-> <<"'", "a", "'">>],
     [written |-> <<"n", "a", "m", "e">>, column |-> "name",
      operator |-> <<"L", "I", "K", "E">>, literal |-> <<"'", "a", "'">>],
     [written |-> <<"t", ".", "i", "d">>, column |-> "id",
      operator |-> <<"=">>, literal |-> <<"1">>]}

ClauseText(c) == c.written \o <<" ">> \o c.operator \o <<" ">> \o c.literal

NextDelete ==
    \/ \E t \in Tables, columns \in Schemas :
          /\ t \notin DOMAIN schema_files
          /\ CreateTable(t, columns)
    \/ \E t \in Tables, i \in Inserts : Insert(t, i.columns, i.values)
    \/ \E t \in Tables : Select(t, <<"*">>, Absent)
    \/ \E t \in Tables, c \in DeleteConditions : DeleteWhere(t, ClauseText(c))
    \/ \E t \in Tables : Delete(t, Absent)

SpecDelete == Init /\ [][NextDelete]_vars

(***************************************************************************)
(* Specification SpecTables: two tables whose names and column names are   *)
(* words with underscores, every command on each of them.                  *)
(***************************************************************************)
TwoTables == {"a", "a_b"}

\* CREATE TABLE a (b_c INT PRIMARY KEY) and
\* CREATE TABLE a_b (c INT PRIMARY KEY)
KeyColumn(t) == IF t = "a" THEN "b_c" ELSE "c"

KeySchema(t) == <<Column(KeyColumn(t), "INTEGER", TRUE, TRUE, TRUE)>>

InitTables ==
    /\ schema_files = EmptyMap
    /\ table_files = EmptyMap
    /\ index_files = EmptyMap
    /\ indexes = EmptyMap
    /\ cmd = NoCommand
    /\ result = QueryResult(Absent, 0)
    /\ turn = 0
    /\ opens = 1
    /\ created_here = {}
    /\ inserted = [t \in TwoTables |-> Untracked]

NextTables ==
    \/ \E t \in TwoTables : CreateTable(t, KeySchema(t))
    \/ \E t \in TwoTables, v \in {IntVal(1), IntVal(2)} :
          Insert(t, Absent, <<v>>)
    \/ \E t \in TwoTables : Select(t, <<"*">>, Absent)
    \/ \E t \in TwoTables :
          Update(t, [c \in {KeyColumn(t)} |-> IntVal(2)],
                 Some([column |-> KeyColumn(t), operator |-> "=",
                       value |-> IntVal(1)]))
    \/ \E t \in TwoTables : Delete(t, Absent)
    \/ \E t \in TwoTables : DropTable(t)

SpecTables == InitTables /\ [][NextTables]_vars

(***************************************************************************)
(* Specification SpecAnyType: one-column tables given literals of every    *)
(* kind, whatever the type of the column: validate_row checks no type.     *)
(***************************************************************************)
\* The literals 1, 2, 'a', '', TRUE, 1.5 and NULL.
AnyValues ==
    {IntVal(1), IntVal(2), StrVal(<<"a">>), StrVal(<<>>), BoolVal(TRUE),
     FloatVal(15), None}

AnyTypeSchemas == {IntKeySchema, TextKeySchema, FlagSchema}

NextAnyType ==
    \/ \E t \in Tables, columns \in AnyTypeSchemas : CreateTable(t, columns)
    \/ \E t \in Tables, v \in AnyValues : Insert(t, Absent, <<v>>)
    \/ \E t \in Tables : Select(t, <<"*">>, Absent)

SpecAnyType == Init /\ [][NextAnyType]_vars

(***************************************************************************)
(* Properties.                                                             *)
(***************************************************************************)
\* C1: in every table, no two rows hold the same (non-null) value in a
\* PRIMARY KEY or UNIQUE column, whatever commands were executed.
C1_KeysAreUnique ==
    \A t \in DOMAIN schema_files :
        LET Distinct(schema, rd) ==
                rd.ok =>
                    \A k \in 1..Len(schema) :
                        (schema[k].primary_key \/ schema[k].unique) =>
                            \A i, j \in 1..Len(rd.rows) :
                                (i # j /\ Get(rd.rows[i].values,
                                              schema[k].name) # None) =>
                                    ~PyEq(Get(rd.rows[i].values, schema[k].name),
                                          Get(rd.rows[j].values, schema[k].name))
        IN  Distinct(load_schema(schema_files, t).schema,
                     read_rows(schema_files, table_files, t))

\* C2: after every successful INSERT, UPDATE or DELETE on a table, each of
\* its in-memory indexes holds (value, rowid) for every row with a non-null
\* value in the column, and every (value, rowid) it holds is a row of the
\* table with that rowid and that value.
C2_IndexMatchesRows ==
    (/\ cmd.type \in {"INSERT", "UPDATE", "DELETE"}
     /\ result.ok
     /\ cmd.t_name \in DOMAIN indexes) =>
        LET Matches(table_indexes, rd) ==
                rd.ok =>
                    \A c \in DOMAIN table_indexes :
                        /\ \A i \in 1..Len(rd.rows) :
                              Get(rd.rows[i].values, c) # None =>
                                  /\ IndexHas(table_indexes[c],
                                              Get(rd.rows[i].values, c))
                                  /\ rd.rows[i].rowid \in
                                        table_indexes[c][PyKey(
                                            Get(rd.rows[i].values, c))]
                        /\ \A key \in DOMAIN table_indexes[c] :
                              \A rowid \in table_indexes[c][key] :
                                  \E i \in 1..Len(rd.rows) :
                                      /\ rd.rows[i].rowid = rowid
                                      /\ PyKey(Get(rd.rows[i].values, c)) = key
        IN  Matches(indexes[cmd.t_name],
                    read_rows(schema_files, table_files, cmd.t_name))

\* The command c is an INSERT that passes the value-count check and
\* validate_row and gives a primary-key column the non-null value a stored
\* row of the table has in that column.
InsertsStoredKey(c) ==
    LET Stored(schema, rd) ==
            /\ rd.ok
            /\ c.columns = Absent => Len(c.values) = Len(schema)
            /\ validate_row(schema, InsertedRow(schema, c.columns, c.values))
            /\ \E k \in 1..Len(schema), i \in 1..Len(rd.rows) :
                  /\ schema[k].primary_key
                  /\ schema[k].name \in
                        DOMAIN InsertedRow(schema, c.columns, c.values)
                  /\ InsertedRow(schema, c.columns,
                                 c.values)[schema[k].name] # None
                  /\ PyEq(InsertedRow(schema, c.columns,
                                      c.values)[schema[k].name],
                          Get(rd.rows[i].values, schema[k].name))
    IN  /\ c.type = "INSERT"
        /\ c.t_name \in DOMAIN schema_files
        /\ Stored(load_schema(schema_files, c.t_name).schema,
                  read_rows(schema_files, table_files, c.t_name))

\* C3: in the session that created the table, an INSERT whose primary-key
\* value equals that of a stored row fails with the duplicate-primary-key
\* error.
C3_DuplicateKeyRejected ==
    [][(InsertsStoredKey(cmd') /\ cmd'.t_name \in created_here) =>
            (~result'.ok /\ result'.error = "duplicate_pk")]_vars

\* C4: after successful INSERTs into a freshly created table with
\* primary-key column p, SELECT p returns one row per INSERT, with the
\* inserted values of p and no value twice.
C4_SelectReturnsInsertedKeys ==
    \A t \in DOMAIN schema_files :
        LET Returned(p, ins) ==
                /\ result.ok
                /\ Len(result.rows) = Len(ins)
                /\ {result.rows[i][p] : i \in 1..Len(result.rows)} =
                      {Get(ins[i], p) : i \in 1..Len(ins)}
                /\ \A i, j \in 1..Len(result.rows) :
                      i # j => result.rows[i][p] # result.rows[j][p]
        IN  (/\ inserted[t].tracked
             /\ cmd.type = "SELECT"
             /\ cmd.t_name = t
             /\ Len(primary_key(load_schema(schema_files, t).schema)) = 1
             /\ cmd.columns = primary_key(load_schema(schema_files, t).schema))
                => Returned(cmd.columns[1], inserted[t].rows)

\* C5: a Database object opened on a directory that already holds the
\* table rejects, with the duplicate-primary-key error, an INSERT whose
\* primary-key value equals that of a stored row.
C5_DuplicateKeyRejectedAfterReopen ==
    [][(InsertsStoredKey(cmd') /\ opens > 1 /\ cmd'.t_name \notin created_here)
            => (~result'.ok /\ result'.error = "duplicate_pk")]_vars

\* C6: after every command, successful or failed, a table has its schema
\* file exactly when it has its row file.
C6_SchemaFileIffRowFile == DOMAIN schema_files = DOMAIN table_files

\* An INSERT naming a table that does not exist has just failed.
C6_InsertIntoMissingTable ==
    /\ cmd.type = "INSERT"
    /\ result.error = "not_found"
    /\ cmd.t_name \notin DOMAIN schema_files
    /\ cmd.t_name \notin DOMAIN table_files

\* C7: an INSERT that fails (table not found, value-count mismatch,
\* validation failure, duplicate primary key) leaves the row file, the
\* in-memory indexes and the index files as they were.
C7_FailedInsertChangesNothing ==
    [][(/\ cmd'.type = "INSERT"
        /\ result'.error \in {"not_found", "value_count", "constraint",
                              "duplicate_pk"}) =>
            (/\ table_files' = table_files
             /\ indexes' = indexes
             /\ index_files' = index_files)]_vars

\* An INSERT has just failed on a duplicate primary key, the table and its
\* index holding rows.
C7_DuplicateInsertFailed ==
    /\ cmd.type = "INSERT"
    /\ result.error = "duplicate_pk"
    /\ table_files[cmd.t_name] # <<>>
    /\ index_files # EmptyMap

\* C8: a value inserted into a fresh one-column table whose type takes it
\* is the value SELECT * returns, in one row.
C8_ValueRoundTrip ==
    \A t \in DOMAIN schema_files :
        (/\ inserted[t].tracked
         /\ Len(inserted[t].rows) = 1
         /\ Len(load_schema(schema_files, t).schema) = 1
         /\ cmd.type = "SELECT"
         /\ cmd.t_name = t
         /\ cmd.columns = <<"*">>) =>
            /\ result.ok
            /\ result.rows = <<inserted[t].rows[1]>>

\* The characters of a string value include a comma.
HasComma(value) ==
    value.k = "str" /\ \E i \in 1..Len(value.s) : value.s[i] = ","

\* C9: a row holding a string with commas, once written, reads back as one
\* decoded field per declared column, each equal to the value inserted.
C9_CommaSurvivesEncoding ==
    \A t \in DOMAIN schema_files :
        LET Decoded(schema, rd, row) ==
                /\ rd.ok
                /\ Len(rd.rows) = 1
                /\ DOMAIN rd.rows[1].values = ColumnSet(schema)
                /\ \A c \in ColumnSet(schema) :
                      c \in DOMAIN row /\ HasComma(row[c]) =>
                          rd.rows[1].values[c] = row[c]
                /\ \A c \in ColumnSet(schema) :
                      c \in DOMAIN row /\ row[c].k = "int" =>
                          rd.rows[1].values[c] = row[c]
        IN  (/\ inserted[t].tracked
             /\ Len(inserted[t].rows) = 1
             /\ \E c \in DOMAIN inserted[t].rows[1] :
                   HasComma(inserted[t].rows[1][c])) =>
                Decoded(load_schema(schema_files, t).schema,
                        read_rows(schema_files, table_files, t),
                        inserted[t].rows[1])

\* The index files on disk that carry the name of an index of table t.
IndexFilesOf(xf, t) ==
    {p \in DOMAIN xf :
        \E schema \in Schemas \cup RoundTripSchemas :
            \E k \in 1..Len(schema) : p = index_path(t, schema[k].name)}

\* C10: DROP TABLE t executed twice in a row: the second fails with the
\* not-found error, and leaves no schema file, row file, index file or
\* in-memory index entry for t.
C10_SecondDropFails ==
    [][(/\ cmd.type = "DROP_TABLE"
        /\ cmd'.type = "DROP_TABLE"
        /\ cmd'.t_name = cmd.t_name) =>
            (/\ ~result'.ok
             /\ result'.error = "not_found"
             /\ cmd'.t_name \notin DOMAIN schema_files'
             /\ cmd'.t_name \notin DOMAIN table_files'
             /\ cmd'.t_name \notin DOMAIN indexes'
             /\ IndexFilesOf(index_files', cmd'.t_name) = {})]_vars

\* C11: after a successful DROP TABLE t, by any Database object, the row
\* file, the schema file and every index file of t are gone and the
\* in-memory index map has no entry for t.
C11_DropRemovesEverything ==
    (cmd.type = "DROP_TABLE" /\ result.ok) =>
        /\ cmd.t_name \notin DOMAIN schema_files
        /\ cmd.t_name \notin DOMAIN table_files
        /\ cmd.t_name \notin DOMAIN indexes
        /\ IndexFilesOf(index_files, cmd.t_name) = {}

\* C12: every INSERT, SELECT, UPDATE, DELETE and DROP TABLE naming a table
\* whose schema file does not exist fails with the not-found error and
\* creates or modifies no file.
C12_MissingTableNotFound ==
    [][(/\ cmd'.type \in {"INSERT", "SELECT", "UPDATE", "DELETE",
                          "DROP_TABLE"}
        /\ cmd'.t_name \notin DOMAIN schema_files) =>
            (/\ ~result'.ok
             /\ result'.error = "not_found"
             /\ schema_files' = schema_files
             /\ table_files' = table_files
             /\ index_files' = index_files)]_vars

\* The PRIMARY KEY and UNIQUE columns of a schema: the columns CREATE TABLE
\* builds an index for.
IndexedColumns(schema) ==
    {schema[k].name : k \in {j \in 1..Len(schema) :
                                schema[j].primary_key \/ schema[j].unique}}

\* C13: DELETE FROM t with no WHERE returns as rowcount the number of rows t
\* held, leaves t with zero rows, and leaves every index of t empty, in
\* memory and in its index file, which still exists.
C13_DeleteAllEmptiesTable ==
    [][LET Emptied(t, schema, before, after) ==
               before.ok =>
                   /\ result'.ok
                   /\ result'.rowcount = Len(before.rows)
                   /\ after.ok
                   /\ after.rows = <<>>
                   /\ \A c \in IndexedColumns(schema) :
                         /\ t \in DOMAIN indexes' =>
                               (c \in DOMAIN indexes'[t] =>
                                    indexes'[t][c] = EmptyMap)
                         /\ index_path(t, c) \in DOMAIN index_files'
                         /\ index_files'[index_path(t, c)] = EmptyMap
       IN  (/\ cmd'.type = "DELETE"
            /\ cmd'.where = Absent
            /\ cmd'.t_name \in DOMAIN schema_files) =>
               Emptied(cmd'.t_name,
                       load_schema(schema_files, cmd'.t_name).schema,
                       read_rows(schema_files, table_files, cmd'.t_name),
                       read_rows(schema_files', table_files', cmd'.t_name))
      ]_vars

\* C14: UPDATE t SET c = v WHERE k = x returns as rowcount the number of
\* rows whose k equals x; afterwards each of those rows has c = v and its
\* other columns as before, every other row is unchanged, and the table has
\* the same number of rows in the same order.
C14_UpdateSetsMatchingRows ==
    [][LET Matching(before, where) ==
               {i \in 1..Len(before.rows) :
                    PyEq(Get(before.rows[i].values, where.column),
                         where.value)}
           Updated(before, after, updates, where) ==
               before.ok =>
                   /\ result'.ok
                   /\ result'.rowcount = Cardinality(Matching(before, where))
                   /\ after.ok
                   /\ Len(after.rows) = Len(before.rows)
                   /\ \A i \in 1..Len(before.rows) :
                         after.rows[i].values =
                            IF i \in Matching(before, where)
                            THEN [col \in DOMAIN before.rows[i].values |->
                                     IF col \in DOMAIN updates
                                     THEN updates[col]
                                     ELSE before.rows[i].values[col]]
                            ELSE before.rows[i].values
       IN  (/\ cmd'.type = "UPDATE"
            /\ cmd'.where # Absent
            /\ cmd'.t_name \in DOMAIN schema_files) =>
               Updated(read_rows(schema_files, table_files, cmd'.t_name),
                       read_rows(schema_files', table_files', cmd'.t_name),
                       cmd'.updates, cmd'.where[1])
      ]_vars

\* The command is a join of the given type.
IsJoin(c, join_type) ==
    /\ "join_type" \in DOMAIN c
    /\ c.join_type = join_type

\* Two sequences hold the same elements the same number of times.
SameBag(s, t) ==
    /\ Len(s) = Len(t)
    /\ \A x \in {s[i] : i \in 1..Len(s)} \cup {t[i] : i \in 1..Len(t)} :
          Cardinality({i \in 1..Len(s) : s[i] = x})
              = Cardinality({i \in 1..Len(t) : t[i] = x})

\* The rows of the join just executed with its two tables exchanged.
SwappedJoinRows(join_type) ==
    execute_join_select(schema_files, table_files, index_files, indexes,
        join_type, cmd.right_table, cmd.t_name,
        [left_column |-> cmd.on.right_column,
         right_column |-> cmd.on.left_column],
        cmd.columns, cmd.where, cmd.order_by).res.rows

\* C15: an INNER JOIN of t1 with t2 on t1.a = t2.b returns the same bag of
\* (t1 row, t2 row) pairs as the INNER JOIN of t2 with t1 on t2.b = t1.a,
\* whatever the order of the result.
C15_InnerJoinCommutes ==
    (IsJoin(cmd, "INNER") /\ result.ok)
        => SameBag(result.rows, SwappedJoinRows("INNER"))

\* C15 witness: an inner join that returned several pairs, in another
\* order than the join of the exchanged tables returns them.
C15_InnerJoinReordered ==
    /\ IsJoin(cmd, "INNER")
    /\ result.ok
    /\ Len(result.rows) >= 2
    /\ result.rows # SwappedJoinRows("INNER")

\* The stored rows of a table, each as the map of its columns.
StoredValues(t_name) ==
    LET Columns(schema, rows) ==
            [i \in 1..Len(rows) |->
                [c \in ColumnSet(schema) |-> Get(rows[i].values, c)]]
    IN  Columns(load_schema(schema_files, t_name).schema,
                read_rows(schema_files, table_files, t_name).rows)

\* The columns of one table in a row of a SELECT * join result.
SidePart(result_row, t_name) ==
    [c \in ColumnSet(load_schema(schema_files, t_name).schema) |->
        result_row[t_name \o "." \o c]]

\* A side of a result row that is null in every column.
NullSide(t_name) ==
    [c \in ColumnSet(load_schema(schema_files, t_name).schema) |-> None]

\* The rows of others whose key equals the key of row, neither being null.
KeyMatches(row, others, key, other_key) ==
    {k \in 1..Len(others) :
        /\ row[key] # None
        /\ others[k][other_key] # None
        /\ PyEq(row[key], others[k][other_key])}

\* The result rows made of the given left and right parts.
PairCount(rows, left_table, left_part, right_table, right_part) ==
    Cardinality({n \in 1..Len(rows) :
        /\ SidePart(rows[n], left_table) = left_part
        /\ SidePart(rows[n], right_table) = right_part})

\* rows holds every row of the outer table: once for each inner row whose
\* key matches, and once with a null inner side if there is none.
OuterPreserved(rows, outer_table, outer_key, inner_table, inner_key) ==
    LET outer == StoredValues(outer_table)
        inner == StoredValues(inner_table)
        M(i) == KeyMatches(outer[i], inner, outer_key, inner_key)
    IN  /\ Len(rows) = Cardinality({i \in 1..Len(outer) : M(i) = {}})
                + Cardinality({p \in (1..Len(outer)) \X (1..Len(inner)) :
                                  p[2] \in M(p[1])})
        /\ \A i \in 1..Len(outer) :
              IF M(i) = {}
              THEN PairCount(rows, outer_table, outer[i],
                             inner_table, NullSide(inner_table))
                     = Cardinality({j \in 1..Len(outer) :
                                       outer[j] = outer[i] /\ M(j) = {}})
              ELSE \A k \in M(i) :
                     PairCount(rows, outer_table, outer[i],
                               inner_table, inner[k])
                       = Cardinality(
                           {p \in (1..Len(outer)) \X (1..Len(inner)) :
                               /\ outer[p[1]] = outer[i]
                               /\ inner[p[2]] = inner[k]
                               /\ p[2] \in M(p[1])})

\* C16: a LEFT JOIN returns every left row, once per right row whose key
\* matches or once with a null right side when none does; a RIGHT JOIN
\* returns the rows of the LEFT JOIN of the exchanged tables, and so
\* preserves the right side.
C16_OuterJoinPreservesOuterSide ==
    /\ (IsJoin(cmd, "LEFT") /\ result.ok)
          => OuterPreserved(result.rows, cmd.t_name, cmd.on.left_column,
                            cmd.right_table, cmd.on.right_column)
    /\ (IsJoin(cmd, "RIGHT") /\ result.ok)
          => /\ result.rows = SwappedJoinRows("LEFT")
             /\ OuterPreserved(result.rows, cmd.right_table,
                               cmd.on.right_column, cmd.t_name,
                               cmd.on.left_column)

\* C16 witness: a left join in which one left row has two matches and
\* another has none.
C16_LeftJoinKeepsUnmatchedRow ==
    /\ IsJoin(cmd, "LEFT")
    /\ result.ok
    /\ Len(result.rows) = 3
    /\ \E n \in 1..Len(result.rows) :
          SidePart(result.rows[n], cmd.right_table)
              = NullSide(cmd.right_table)

\* The command is a join of any type.
IsAnyJoin(c) == "join_type" \in DOMAIN c

\* The stored rows of a table whose key column is null.
NullKeyRows(t_name, key) ==
    {i \in 1..Len(StoredValues(t_name)) : StoredValues(t_name)[i][key] = None}

\* In rows, a row of the preserved table whose key is null stands beside a
\* null other side, once for each stored row it equals.
NullKeyRowsUnpaired(rows, outer_table, outer_key, inner_table) ==
    \A i \in NullKeyRows(outer_table, outer_key) :
        /\ PairCount(rows, outer_table, StoredValues(outer_table)[i],
                     inner_table, NullSide(inner_table))
             = Cardinality({j \in NullKeyRows(outer_table, outer_key) :
                   StoredValues(outer_table)[j] = StoredValues(outer_table)[i]})
        /\ \A n \in 1..Len(rows) :
              SidePart(rows[n], outer_table) = StoredValues(outer_table)[i]
                  => SidePart(rows[n], inner_table) = NullSide(inner_table)

\* C17: a row whose join key is null is never paired with a row of the other
\* table, not even with one whose key is null too; on the preserved side
\* of an outer join it is returned once, the other side null.
C17_NullKeyNeverPairs ==
    (IsAnyJoin(cmd) /\ result.ok) =>
        /\ \A n \in 1..Len(result.rows) :
              \/ /\ result.rows[n][cmd.t_name \o "." \o cmd.on.left_column]
                        # None
                 /\ result.rows[n][cmd.right_table \o "." \o cmd.on.right_column]
                        # None
              \/ SidePart(result.rows[n], cmd.t_name) = NullSide(cmd.t_name)
              \/ SidePart(result.rows[n], cmd.right_table)
                    = NullSide(cmd.right_table)
        /\ cmd.join_type = "INNER" =>
              \A n \in 1..Len(result.rows) :
                  /\ result.rows[n][cmd.t_name \o "." \o cmd.on.left_column]
                        # None
                  /\ result.rows[n][cmd.right_table \o "." \o cmd.on.right_column]
                        # None
        /\ cmd.join_type = "LEFT" =>
              NullKeyRowsUnpaired(result.rows, cmd.t_name,
                                  cmd.on.left_column, cmd.right_table)
        /\ cmd.join_type = "RIGHT" =>
              NullKeyRowsUnpaired(result.rows, cmd.right_table,
                                  cmd.on.right_column, cmd.t_name)

\* C17 witness: a left join of two tables that both hold a row with a null
\* key; the left one is returned with a null right side.
C17_NullKeysOnBothSides ==
    /\ IsJoin(cmd, "LEFT")
    /\ result.ok
    /\ NullKeyRows(cmd.t_name, cmd.on.left_column) # {}
    /\ NullKeyRows(cmd.right_table, cmd.on.right_column) # {}
    /\ \E n \in 1..Len(result.rows) :
          /\ result.rows[n][cmd.t_name \o "." \o cmd.on.left_column] = None
          /\ SidePart(result.rows[n], cmd.right_table)
                = NullSide(cmd.right_table)

\* The command is a simple SELECT with an ORDER BY clause.
IsOrdered(c) ==
    /\ c.type = "SELECT"
    /\ "order_by" \in DOMAIN c
    /\ "join_type" \notin DOMAIN c
    /\ c.order_by # Absent

\* No row of rows precedes a row with a smaller key on the columns cols:
\* ascending, nulls last, strings compared in lower case.
Ascending(rows, cols) ==
    \A n, m \in 1..Len(rows) :
        n < m => ~KeyLess(sort_key(rows[m], cols), sort_key(rows[n], cols))

\* The rows the SELECT just executed returns without its ORDER BY clause.
UnorderedRows ==
    select_ordered(schema_files, table_files, index_files, indexes,
                   cmd.t_name, cmd.columns, cmd.where, Absent).res.rows

\* C18: SELECT ... ORDER BY c1, ..., cn returns its rows in ascending order
\* of (c1, ..., cn), nulls last, strings compared in lower case, and rows
\* with equal keys in the order they had before.
C18_OrderBySorts ==
    \A cols \in OrderByLists :
        (IsOrdered(cmd) /\ cmd.order_by = Some(parse_order_by(cols))
            /\ result.ok)
        => /\ Ascending(result.rows, cols)
           /\ result.rows = apply_order_by(UnorderedRows, Some(cols))

\* Every row of the table the SELECT just executed reads, as SELECT * FROM
\* the table returns them.
UnorderedWhereRows ==
    select_ordered(schema_files, table_files, index_files, indexes,
                   cmd.t_name, cmd.columns, Absent, Absent).res.rows

\* The command is a simple SELECT with the given WHERE clause, on a table
\* that exists.
HasWhereClause(c, where_clause) ==
    /\ c.type = "SELECT"
    /\ c.t_name \in DOMAIN schema_files
    /\ "where_clause" \in DOMAIN c
    /\ c.where_clause = where_clause

\* The row satisfies the simple condition written as text.
Satisfies(row, condition_text) ==
    evaluate_condition(row, parse_simple_condition(condition_text).condition)

\* C19: a SELECT with WHERE cond1 AND cond2 returns the rows that satisfy
\* both conditions; with WHERE cond1 OR cond2, the rows that satisfy at
\* least one of them.
C19_CompoundWhere ==
    \A c1, c2 \in ConditionTexts :
        /\ HasWhereClause(cmd, AndClause(c1, c2))
              => /\ result.ok
                 /\ result.rows
                      = SelectSeq(UnorderedWhereRows,
                            LAMBDA row : Satisfies(row, c1) /\ Satisfies(row, c2))
        /\ HasWhereClause(cmd, OrClause(c1, c2))
              => /\ result.ok
                 /\ result.rows
                      = SelectSeq(UnorderedWhereRows,
                            LAMBDA row : Satisfies(row, c1) \/ Satisfies(row, c2))

\* The NOT NULL columns of the schema that are no key of the row map.
MissingRequired(schema, row) ==
    {schema[i].name : i \in {j \in 1..Len(schema) : ~schema[j].nullable}}
        \ DOMAIN row

\* C20: a row passes validation exactly when every NOT NULL column is a key
\* of its map: an INSERT whose row lacks a NOT NULL column fails with a
\* constraint violation and appends nothing, and no other INSERT fails so.
C20_MissingRequiredColumnRejected ==
    [][(/\ cmd'.type = "INSERT"
        /\ cmd'.t_name \in DOMAIN schema_files
        /\ result'.error # "value_count") =>
            LET Checked(schema, row) ==
                    /\ validate_row(schema, row)
                          <=> MissingRequired(schema, row) = {}
                    /\ result'.error = "constraint"
                          <=> MissingRequired(schema, row) # {}
                    /\ MissingRequired(schema, row) # {}
                          => /\ ~result'.ok
                             /\ table_files' = table_files
                Loaded(schema) ==
                    Checked(schema,
                            InsertedRow(schema, cmd'.columns, cmd'.values))
            IN  Loaded(load_schema(schema_files, cmd'.t_name).schema)]_vars

\* C20 witness: INSERT INTO t (id) VALUES (..) has just failed on the
\* missing NOT NULL column name.
C20_InsertWithoutRequiredColumn ==
    /\ cmd.type = "INSERT"
    /\ cmd.t_name \in DOMAIN schema_files
    /\ cmd.columns = Some(<<"id">>)
    /\ result.error = "constraint"

\* C21: the result of CREATE TABLE, INSERT, UPDATE, DELETE and DROP TABLE
\* has rows = null, with rowcount 0 for CREATE TABLE and DROP TABLE and 1
\* for INSERT; the result of SELECT has a list as rows.
C21_NoRowsForMutatingCommands ==
    result.ok =>
        /\ cmd.type \in {"CREATE_TABLE", "INSERT", "UPDATE", "DELETE",
                         "DROP_TABLE"} => result.null_rows
        /\ cmd.type \in {"CREATE_TABLE", "DROP_TABLE"} => result.rowcount = 0
        /\ cmd.type = "INSERT" => result.rowcount = 1
        /\ cmd.type = "SELECT" => ~result.null_rows

\* C22: the persisted schema of a table that exists is the same after every
\* command, except the DROP TABLE that deletes it.
C22_SchemaNeverChanges ==
    [][\A t \in DOMAIN schema_files :
          ~(cmd'.type = "DROP_TABLE" /\ cmd'.t_name = t)
              => /\ t \in DOMAIN schema_files'
                 /\ schema_files'[t] = schema_files[t]]_vars

\* C23: CREATE TABLE, INSERT and SELECT leave every line already stored in
\* the row file of every existing table in place and as it was.
C23_RowsOnlyRemovedByDeleteOrDrop ==
    [][cmd'.type \in {"CREATE_TABLE", "INSERT", "SELECT"}
          => \A t \in DOMAIN table_files :
                /\ t \in DOMAIN table_files'
                /\ Len(table_files'[t]) >= Len(table_files[t])
                /\ SubSeq(table_files'[t], 1, Len(table_files[t]))
                      = table_files[t]]_vars

\* The stored rows of the table whose value in a primary-key column equals
\* the value the row map gives that column.
RowsWithPrimaryKeyOf(t_name, row) ==
    LET Same(schema, rows) ==
            {n \in 1..Len(rows) :
                \E i \in 1..Len(schema) :
                    /\ schema[i].primary_key
                    /\ schema[i].name \in DOMAIN row
                    /\ schema[i].name \in DOMAIN rows[n].values
                    /\ PyEq(rows[n].values[schema[i].name],
                            row[schema[i].name])}
    IN  Same(load_schema(schema_files, t_name).schema,
             read_rows(schema_files, table_files, t_name).rows)

\* C24: after any INSERTs, UPDATEs and DELETEs of one session, an INSERT
\* fails with a duplicate primary key only if a row now stored in the table
\* has that primary-key value.
C24_FreshKeyNeverRejected ==
    [][(/\ cmd'.type = "INSERT"
        /\ result'.error = "duplicate_pk") =>
            RowsWithPrimaryKeyOf(cmd'.t_name,
                InsertedRow(load_schema(schema_files, cmd'.t_name).schema,
                            cmd'.columns, cmd'.values)) # {}]_vars

\* The values of the rows read from a row file under the schema of t_name.
RowValues(tf, t_name) ==
    LET Values(rows) == [n \in 1..Len(rows) |-> rows[n].values]
    IN  Values(read_rows(schema_files, tf, t_name).rows)

\* C25: a DELETE with a WHERE clause removes the rows whose named column
\* equals the literal, whatever the operator written, and keeps all the
\* others in their order; it empties the table only if every row matches.
C25_DeleteWhereRemovesMatchingRows ==
    [][\A c \in DeleteConditions :
          (/\ cmd'.type = "DELETE"
           /\ "where_clause" \in DOMAIN cmd'
           /\ cmd'.where_clause = ClauseText(c)
           /\ cmd'.t_name \in DOMAIN schema_files)
          => /\ result'.ok
             /\ RowValues(table_files', cmd'.t_name)
                  = SelectSeq(RowValues(table_files, cmd'.t_name),
                        LAMBDA row : ~PyEq(Get(row, c.column),
                                           parse_value(c.literal)))]_vars

\* C26: after a successful CREATE TABLE, INSERT, UPDATE or DELETE on a table
\* that has in-memory indexes, each of these indexes has an index file, and
\* the file holds the in-memory map.
C26_IndexFilesFollowIndexes ==
    (/\ cmd.type \in {"CREATE_TABLE", "INSERT", "UPDATE", "DELETE"}
     /\ result.ok
     /\ cmd.t_name \in DOMAIN indexes)
    => \A c \in DOMAIN indexes[cmd.t_name] :
          /\ index_path(cmd.t_name, c) \in DOMAIN index_files
          /\ index_files[index_path(cmd.t_name, c)] = indexes[cmd.t_name][c]

\* The file or map entry of key is the same in f and g: in both or in
\* neither, with one content.
SameAt(f, g, key) ==
    /\ key \in DOMAIN f <=> key \in DOMAIN g
    /\ key \in DOMAIN f /\ key \in DOMAIN g => f[key] = g[key]

\* C30: a command naming table t leaves the schema file, the row file, the
\* index files and the in-memory indexes of every other existing table as
\* they were.
C30_OtherTablesUntouched ==
    [][\A u \in TwoTables :
          (cmd'.type # "NONE" /\ cmd'.t_name # u /\ u \in DOMAIN schema_files)
          => /\ SameAt(schema_files, schema_files', u)
             /\ SameAt(table_files, table_files', u)
             /\ SameAt(indexes, indexes', u)
             /\ SameAt(index_files, index_files',
                       index_path(u, KeyColumn(u)))]_vars

\* C27: no index of any table has a bucket whose key is null.
C27_NullNeverIndexed ==
    \A t \in DOMAIN indexes :
        \A c \in DOMAIN indexes[t] : None \notin DOMAIN indexes[t][c]


\* C28: after a successful INSERT into a table with in-memory indexes,
\* read_rows returns the inserted row as the row of the last line of the row
\* file, and the rowid it gives that row is the rowid every index of the
\* table holds for the row's value.
C28_IndexedRowidIsReadRowid ==
    [][(/\ cmd'.type = "INSERT"
        /\ result'.ok
        /\ cmd'.t_name \in DOMAIN indexes'
        /\ indexes'[cmd'.t_name] # EmptyMap) =>
            LET t_name == cmd'.t_name
                row == InsertedRow(load_schema(schema_files, t_name).schema,
                                   cmd'.columns, cmd'.values)
                read == read_rows(schema_files', table_files', t_name)
                Registered(c, rowid) ==
                    /\ PyKey(row[c]) \in DOMAIN indexes'[t_name][c]
                    /\ rowid \in indexes'[t_name][c][PyKey(row[c])]
                SameRowid(last) ==
                    /\ last.rowid = Len(table_files'[t_name])
                    /\ \A c \in DOMAIN indexes'[t_name] \cap DOMAIN row :
                          Registered(c, last.rowid)
            IN  /\ read.ok
                /\ read.rows # <<>>
                /\ SameRowid(read.rows[Len(read.rows)])]_vars


\* C29: when SELECT * on a table succeeds and the next command is a
\* successful INSERT into that table, SELECT * right after the INSERT
\* succeeds too and returns exactly one row more.
C29_InsertKeepsTableReadable ==
    [][(/\ cmd'.type = "INSERT"
        /\ result'.ok) =>
            LET before == execute_simple_select(schema_files, table_files,
                              index_files, indexes, cmd'.t_name, <<"*">>,
                              Absent).res
                after == execute_simple_select(schema_files', table_files',
                              index_files', indexes', cmd'.t_name, <<"*">>,
                              Absent).res
            IN  before.ok =>
                    /\ after.ok
                    /\ Len(after.rows) = Len(before.rows) + 1]_vars

====
